---- MODULE Spec2Model ----
(***************************************************************************)
(* COMPLY.AI backend: rule analysis pipeline.                              *)
(*                                                                         *)
(* analyze_rule (analyzer.py) evaluates one rule against a repository:     *)
(* keyword filtering and LLM-assisted file selection (file_selector.py),   *)
(* file reads (repo_handler.py), one analysis completion call              *)
(* (llm_client.py) and tolerant JSON extraction (json_parser.py).          *)
(*                                                                         *)
(* Conventions.                                                            *)
(*  - A Python str is a sequence of one-character strings.                 *)
(*  - A Python/JSON value is a tagged record [t |-> tag, v |-> payload].   *)
(*  - A Python dict is a function whose domain is its set of keys.         *)
(*  - An LLM reply is a sequence of tokens: whitespace, prose, the fence   *)
(*    markers ``` and ```json, complete JSON value texts, and a run of     *)
(*    arrays nested past the recursion limit.  Prose holds no bracket,     *)
(*    brace or fence; JSON strings hold no brace or fence, and may hold    *)
(*    square brackets (file names such as b/[2]).                          *)
(*  - A callee that can raise returns [exc |-> name] or [ok |-> value].    *)
(***************************************************************************)
EXTENDS Integers, Sequences, FiniteSets, TLC

VARIABLES
    pc,             \* position of the evaluation
    caller,         \* the caller of select_best_files ("analyze_rule" or
                    \* "direct"), or the parser that is called on its own
    rule,           \* the rule dict
    all_files,      \* get_all_files(repo_path): [code_files, doc_files]
    llm_client,     \* "None" or "client"
    env_key,        \* FEATHERLESS_API_KEY is set in the environment
    max_files,      \* select_best_files parameter
    filtered_code,  \* analyze_rule: filtered_code; select_best_files: filtered_files
    code_files,     \* analyze_rule: code_files (select_best_files' return value)
    selected_files, \* analyze_rule: selected_files
    file_contents,  \* keys of the file_contents dict, in insertion order
    read_log,       \* outcome of each read_file call, in call order
    calls,          \* completion calls issued so far, in order
    sel_outcome,    \* what the file-selection completion call produced
    llm_outcome,    \* what the analysis completion call produced
    result,         \* the returned RuleResult dict
    escaped,        \* exception that left the function, or "none"
    fn_args,        \* argument record of a pure function under check
    fn_ret,         \* its return value
    current,        \* the evaluation that is running (the event loop runs one)
    suspended,      \* frames of the evaluations that are not running
    disk,           \* the directories under REPOS_DIR: name -> content
    clones          \* the clone_repo calls: [pc, url, path] each

vars == <<pc, caller, rule, all_files, llm_client, env_key, max_files,
          filtered_code, code_files, selected_files, file_contents, read_log,
          calls, sel_outcome, llm_outcome, result, escaped, fn_args, fn_ret,
          current, suspended, disk, clones>>

(***************************************************************************)
(* Bounds of the model.                                                    *)
(***************************************************************************)
NumCode == 5
NumDoc == 1
MaxArr == 4

(***************************************************************************)
(* Python strings.                                                         *)
(***************************************************************************)
UpperLetters ==
    <<"A", "B", "C", "D", "E", "F", "G", "H", "I", "J", "K", "L", "M",
      "N", "O", "P", "Q", "R", "S", "T", "U", "V", "W", "X", "Y", "Z">>
LowerLetters ==
    <<"a", "b", "c", "d", "e", "f", "g", "h", "i", "j", "k", "l", "m",
      "n", "o", "p", "q", "r", "s", "t", "u", "v", "w", "x", "y", "z">>
IsUpper(c) == \E i \in 1..26 : UpperLetters[i] = c
IsLower(c) == \E i \in 1..26 : LowerLetters[i] = c
LetterIndex(c, letters) == CHOOSE i \in 1..26 : letters[i] = c

\* str.lower() on one ASCII character
LowerChar(c) ==
    IF IsUpper(c) THEN LowerLetters[LetterIndex(c, UpperLetters)] ELSE c

LowerStr(s) == [i \in 1..Len(s) |-> LowerChar(s[i])]

DigitChars == <<"0", "1", "2", "3", "4", "5", "6", "7", "8", "9">>
IsDigit(c) == \E d \in 1..10 : DigitChars[d] = c
DigitValue(c) == (CHOOSE d \in 1..10 : DigitChars[d] = c) - 1

\* code point of a character (ASCII), for the characters of file paths
Ord(c) ==
    CASE IsDigit(c) -> 48 + DigitValue(c)
      [] IsUpper(c) -> 64 + LetterIndex(c, UpperLetters)
      [] IsLower(c) -> 96 + LetterIndex(c, LowerLetters)
      [] c = "-" -> 45
      [] c = "." -> 46
      [] c = "/" -> 47
      [] c = "[" -> 91
      [] c = "]" -> 93
      [] c = "_" -> 95

\* `sub in s` for two strings
StrContains(s, sub) ==
    \E o \in 0..(Len(s) - Len(sub)) : \A j \in 1..Len(sub) : s[o + j] = sub[j]

\* s < t in Python's string order (code points, shorter prefix first)
StrLess(s, t) ==
    \E i \in 1..(Len(t)) :
        /\ \A j \in 1..(i - 1) : j <= Len(s) /\ s[j] = t[j]
        /\ \/ i = Len(s) + 1
           \/ i <= Len(s) /\ Ord(s[i]) < Ord(t[i])

RECURSIVE SortedInsert(_, _)
SortedInsert(seq, p) ==
    IF seq = <<>> THEN <<p>>
    ELSE IF StrLess(p, Head(seq)) THEN <<p>> \o seq
    ELSE <<Head(seq)>> \o SortedInsert(Tail(seq), p)

\* sorted(list) of strings
RECURSIVE sorted(_)
sorted(seq) ==
    IF seq = <<>> THEN <<>>
    ELSE SortedInsert(sorted(Tail(seq)), Head(seq))

\* seq[:n]
Take(seq, n) ==
    IF n >= 0 THEN SubSeq(seq, 1, IF n < Len(seq) THEN n ELSE Len(seq))
    ELSE SubSeq(seq, 1, Len(seq) + n)

InList(x, seq) == \E i \in 1..Len(seq) : seq[i] = x

\* dict.get(key, default)
Get(d, key, default) == IF key \in DOMAIN d THEN d[key] ELSE default

(***************************************************************************)
(* file_selector.py: filter_by_keywords                                    *)
(***************************************************************************)
RECURSIVE FilterLoop(_, _, _)
FilterLoop(files, keywords_lower, i) ==
    IF i > Len(files) THEN <<>>
    ELSE LET filename_lower == LowerStr(files[i])
             rest == FilterLoop(files, keywords_lower, i + 1)
         IN IF \E k \in 1..Len(keywords_lower) :
                   StrContains(filename_lower, keywords_lower[k])
            THEN <<files[i]>> \o rest
            ELSE rest

\* mutant of filter_by_keywords: the keywords are not lower-cased
filter_by_keywords_KeywordsAsGiven(files, keywords) ==
    IF keywords = <<>> THEN files
    ELSE FilterLoop(files, keywords, 1)

filter_by_keywords(files, keywords) ==
    IF keywords = <<>> THEN files
    ELSE FilterLoop(files,
                    [k \in 1..Len(keywords) |-> LowerStr(keywords[k])], 1)

(***************************************************************************)
(* Python / JSON values.                                                   *)
(***************************************************************************)
PyNone == [t |-> "null", v |-> 0]
PyBool(b) == [t |-> "bool", v |-> b]
PyInt(n) == [t |-> "int", v |-> n]
PyFloat(tenths) == [t |-> "float", v |-> tenths]    \* value = tenths / 10
PyNaN == [t |-> "nan", v |-> 0]                     \* json.loads("NaN")
PyInf == [t |-> "inf", v |-> 0]                     \* json.loads("Infinity")
PyStr(s) == [t |-> "str", v |-> s]
PyList(seq) == [t |-> "arr", v |-> seq]
PyDict(f) == [t |-> "obj", v |-> f]

Raise(name) == [exc |-> name]
Return(value) == [ok |-> value]
Raised(r) == "exc" \in DOMAIN r

\* bool(x)
Truthy(x) ==
    CASE x.t = "null" -> FALSE
      [] x.t = "bool" -> x.v
      [] x.t = "int" -> x.v # 0
      [] x.t = "float" -> x.v # 0
      [] x.t \in {"nan", "inf"} -> TRUE
      [] x.t = "str" -> x.v # <<>>
      [] x.t = "arr" -> x.v # <<>>
      [] x.t = "obj" -> DOMAIN x.v # {}

\* isinstance(x, (int, float)); bool is a subclass of int
IsNumber(x) == x.t \in {"int", "bool", "float", "nan", "inf"}

RECURSIVE DigitsValue(_)
DigitsValue(s) ==
    IF s = <<>> THEN 0
    ELSE 10 * DigitsValue(SubSeq(s, 1, Len(s) - 1)) + DigitValue(s[Len(s)])

RECURSIVE NatDigits(_)
NatDigits(n) ==
    IF n < 10 THEN <<DigitChars[n + 1]>>
    ELSE NatDigits(n \div 10) \o <<DigitChars[(n % 10) + 1]>>

\* int(x): truncation toward zero for floats, decimal parse for strings
PyIntOf(x) ==
    CASE x.t = "int" -> Return(x.v)
      [] x.t = "bool" -> Return(IF x.v THEN 1 ELSE 0)
      [] x.t = "float" ->
            Return(IF x.v >= 0 THEN x.v \div 10 ELSE -((-x.v) \div 10))
      [] x.t = "nan" -> Raise("ValueError")
      [] x.t = "inf" -> Raise("OverflowError")
      [] x.t = "str" ->
            IF x.v # <<>> /\ \A i \in 1..Len(x.v) : IsDigit(x.v[i])
            THEN Return(DigitsValue(x.v))
            ELSE IF Len(x.v) > 1 /\ x.v[1] = "-"
                    /\ \A i \in 2..Len(x.v) : IsDigit(x.v[i])
            THEN Return(-DigitsValue(Tail(x.v)))
            ELSE Raise("ValueError")
      [] x.t \in {"null", "arr", "obj"} -> Raise("TypeError")

\* str(x), for the values the model feeds it
PyStrOf(x) ==
    CASE x.t = "str" -> x.v
      [] x.t = "null" -> <<"N", "o", "n", "e">>
      [] x.t = "bool" -> IF x.v THEN <<"T", "r", "u", "e">>
                                 ELSE <<"F", "a", "l", "s", "e">>
      [] x.t = "int" -> IF x.v >= 0 THEN NatDigits(x.v)
                                     ELSE <<"-">> \o NatDigits(-x.v)

Min(a, b) == IF a < b THEN a ELSE b
Max(a, b) == IF a > b THEN a ELSE b

(***************************************************************************)
(* LLM reply text.                                                         *)
(***************************************************************************)
TokWs == [k |-> "ws", v |-> PyNone]           \* whitespace
TokTxt == [k |-> "txt", v |-> PyNone]         \* prose
TokFence == [k |-> "fence", v |-> PyNone]     \* ```
TokJFence == [k |-> "jfence", v |-> PyNone]   \* ```json
TokJson(value) == [k |-> "json", v |-> value] \* the text of one JSON value
\* "[[[[...]]]]": arrays nested deeper than the interpreter's recursion limit
TokDeep == [k |-> "deep", v |-> PyNone]

\* the text contains ``` (the marker ```json contains it too)
IsFenceTok(tok) == tok.k \in {"fence", "jfence"}

\* str.strip()
RECURSIVE LStrip(_)
LStrip(text) ==
    IF text # <<>> /\ Head(text).k = "ws" THEN LStrip(Tail(text)) ELSE text

RECURSIVE RStrip(_)
RStrip(text) ==
    IF text # <<>> /\ text[Len(text)].k = "ws"
    THEN RStrip(SubSeq(text, 1, Len(text) - 1))
    ELSE text

strip(text) == RStrip(LStrip(text))

\* text.split(marker)[1] for a marker that occurs: what follows its first
\* occurrence, up to its next occurrence; marker is the set of token kinds
\* whose text contains the marker string
AfterFirst(text, marker) ==
    LET first == CHOOSE i \in 1..Len(text) :
                    text[i].k \in marker /\ \A j \in 1..(i - 1) : text[j].k \notin marker
        rest == SubSeq(text, first + 1, Len(text))
        stops == {i \in 1..Len(rest) : rest[i].k \in marker}
    IN IF stops = {} THEN rest
       ELSE SubSeq(rest, 1, (CHOOSE i \in stops : \A j \in stops : i <= j) - 1)

\* text.split("```")[0]
BeforeFence(text) ==
    LET stops == {i \in 1..Len(text) : IsFenceTok(text[i])}
    IN IF stops = {} THEN text
       ELSE SubSeq(text, 1, (CHOOSE i \in stops : \A j \in stops : i <= j) - 1)

\* mutant of RemoveCodeBlocks: whichever fence comes first is taken
RemoveCodeBlocks_FirstFence(cleaned) ==
    IF \E i \in 1..Len(cleaned) : cleaned[i].k \in {"fence", "jfence"}
    THEN strip(BeforeFence(AfterFirst(cleaned, {"fence", "jfence"})))
    ELSE cleaned

\* "Remove markdown code blocks"
RemoveCodeBlocks(cleaned) ==
    IF \E i \in 1..Len(cleaned) : cleaned[i].k = "jfence"
    THEN strip(BeforeFence(AfterFirst(cleaned, {"jfence"})))
    ELSE IF \E i \in 1..Len(cleaned) : cleaned[i].k = "fence"
    THEN strip(BeforeFence(AfterFirst(cleaned, {"fence", "jfence"})))
    ELSE cleaned

\* json.loads(text): the decoder descends into the nested arrays before it
\* looks at what follows them
json_loads(text) ==
    LET s == strip(text)
    IN IF s # <<>> /\ s[1].k = "deep" THEN Raise("RecursionError")
       ELSE IF Len(s) = 1 /\ s[1].k = "json" THEN Return(s[1].v)
       ELSE Raise("JSONDecodeError")

(***************************************************************************)
(* Bracket-span searches: re.search over the text of the reply.            *)
(***************************************************************************)
\* the text of the value holds a "{"
RECURSIVE HasBrace(_)
HasBrace(x) ==
    \/ x.t = "obj"
    \/ x.t = "arr" /\ \E i \in 1..Len(x.v) : HasBrace(x.v[i])

\* the text of the value holds a "["
RECURSIVE HasBracket(_)
HasBracket(x) ==
    \/ x.t = "arr"
    \/ x.t = "str" /\ \E i \in 1..Len(x.v) : x.v[i] = "["
    \/ x.t = "obj" /\ \E key \in DOMAIN x.v : HasBracket(x.v[key])

\* the text of the value holds a "]"
RECURSIVE HasCloseBracket(_)
HasCloseBracket(x) ==
    \/ x.t = "arr"
    \/ x.t = "str" /\ \E i \in 1..Len(x.v) : x.v[i] = "]"
    \/ x.t = "obj" /\ \E key \in DOMAIN x.v : HasCloseBracket(x.v[key])

\* json.loads of the span from the first "{" to the last "}" of one value
RECURSIVE BraceSpan(_)
BraceSpan(x) ==
    IF x.t = "obj" THEN Return(x)
    ELSE LET holders == {i \in 1..Len(x.v) : HasBrace(x.v[i])}
         IN IF Cardinality(holders) = 1
            THEN BraceSpan(x.v[CHOOSE i \in holders : TRUE])
            ELSE Raise("JSONDecodeError")

\* re.search(r"\{.*\}", cleaned, re.DOTALL) followed by json.loads(match.group());
\* "nomatch" when the text holds no brace pair
SearchObject(cleaned) ==
    LET holders == {i \in 1..Len(cleaned) :
                        cleaned[i].k = "json" /\ HasBrace(cleaned[i].v)}
    IN IF holders = {} THEN Raise("nomatch")
       ELSE IF Cardinality(holders) = 1
       THEN BraceSpan(cleaned[CHOOSE i \in holders : TRUE].v)
       ELSE Raise("JSONDecodeError")

\* json.loads of the span from the first "[" of a value to the first "]"
\* after it: the whole array when no entry of it holds a "]"; a span that
\* ends inside the array, or starts inside a string, is not JSON
RECURSIVE BracketSpan(_)
BracketSpan(x) ==
    IF x.t = "arr"
    THEN IF \E i \in 1..Len(x.v) : HasCloseBracket(x.v[i])
         THEN Raise("JSONDecodeError")
         ELSE Return(x)
    ELSE IF x.t = "str" THEN Raise("JSONDecodeError")
    ELSE BracketSpan(x.v[CHOOSE key \in DOMAIN x.v : HasBracket(x.v[key])])

\* re.search(r"\[.*?\]", cleaned, re.DOTALL) followed by json.loads(match.group())
SearchArray(cleaned) ==
    LET holders == {i \in 1..Len(cleaned) :
                        \/ cleaned[i].k = "deep"
                        \/ cleaned[i].k = "json" /\ HasBracket(cleaned[i].v)}
        first == cleaned[CHOOSE i \in holders : \A j \in holders : i <= j]
    IN IF holders = {} THEN Raise("nomatch")
       ELSE IF first.k = "deep" THEN Raise("RecursionError")
       ELSE BracketSpan(first.v)

(***************************************************************************)
(* file_selector.py: parse_file_selection_response                         *)
(***************************************************************************)
\* [f for f in selected if f in filtered_files]
RECURSIVE ValidFiles(_, _)
ValidFiles(selected, filtered_files) ==
    IF selected = <<>> THEN <<>>
    ELSE LET f == Head(selected)
             rest == ValidFiles(Tail(selected), filtered_files)
         IN IF f.t = "str" /\ InList(f.v, filtered_files)
            THEN <<f.v>> \o rest
            ELSE rest

\* the list `selected` that parse_file_selection_response validates, or
\* "nolist" when control reaches "If all parsing fails"
SelectedList(response) ==
    LET cleaned == RemoveCodeBlocks(strip(response))
        direct == json_loads(cleaned)
        match == SearchArray(cleaned)
    IN IF ~Raised(direct)
       THEN IF direct.ok.t = "arr" THEN Return(direct.ok.v) ELSE Raise("nolist")
       ELSE IF direct.exc # "JSONDecodeError" THEN direct
       ELSE IF ~Raised(match)
       THEN IF match.ok.t = "arr" THEN Return(match.ok.v) ELSE Raise("nolist")
       ELSE IF match.exc \in {"nomatch", "JSONDecodeError"} THEN Raise("nolist")
       ELSE match

\* returns a list, or raises what neither except clause catches
parse_file_selection_response(response, filtered_files) ==
    LET selected == SelectedList(response)
    IN IF ~Raised(selected) THEN Return(ValidFiles(selected.ok, filtered_files))
       ELSE IF selected.exc = "nolist" THEN Return(<<>>)
       ELSE selected

(***************************************************************************)
(* json_parser.py: parse_llm_file_selection                                *)
(***************************************************************************)
\* as parse_file_selection_response, but the bracket-span search also runs
\* after a direct parse that gave something other than a list
parse_llm_file_selection(response, available_files) ==
    LET cleaned == RemoveCodeBlocks(strip(response))
        direct == json_loads(cleaned)
        match == SearchArray(cleaned)
    IN IF ~Raised(direct) /\ direct.ok.t = "arr"
       THEN Return(ValidFiles(direct.ok.v, available_files))
       ELSE IF Raised(direct) /\ direct.exc # "JSONDecodeError" THEN direct
       ELSE IF ~Raised(match)
       THEN IF match.ok.t = "arr"
            THEN Return(ValidFiles(match.ok.v, available_files))
            ELSE Return(<<>>)
       ELSE IF match.exc \in {"nomatch", "JSONDecodeError"} THEN Return(<<>>)
       ELSE match

(***************************************************************************)
(* json_parser.py: validate_and_sanitize_response, parse_json_response     *)
(***************************************************************************)
\* mutant of SanitizeLine: a falsy or missing line becomes 0
SanitizeLine_ZeroForFalsy(violation) ==
    IF Truthy(Get(violation, "line", PyNone))
    THEN LET n == PyIntOf(Get(violation, "line", PyInt(0)))
         IN IF Raised(n) THEN n ELSE Return(PyInt(n.ok))
    ELSE Return(PyInt(0))

\* the "line" entry of a sanitized violation
SanitizeLine(violation) ==
    IF Truthy(Get(violation, "line", PyNone))
    THEN LET n == PyIntOf(Get(violation, "line", PyInt(0)))
         IN IF Raised(n) THEN n ELSE Return(PyInt(n.ok))
    ELSE Return(PyNone)

\* the rebuilt dict of one violation that is a mapping
SanitizeViolation(violation) ==
    LET line == SanitizeLine(violation)
    IN IF Raised(line) THEN line
       ELSE Return(
           [file |-> PyStr(PyStrOf(Get(violation, "file",
                            PyStr(<<"u", "n", "k", "n", "o", "w", "n">>)))),
            line |-> line.ok,
            severity |-> PyStr(PyStrOf(Get(violation, "severity",
                            PyStr(<<"m", "e", "d", "i", "u", "m">>)))),
            issue |-> PyStr(PyStrOf(Get(violation, "issue",
                            PyStr(<<"N", "o", " ", "d", "e", "s", "c", "r", "i", "p", "t", "i", "o", "n">>)))),
            recommendation |-> PyStr(PyStrOf(Get(violation, "recommendation",
                            PyStr(<<"N", "o", " ", "r", "e", "c", "o", "m", "m", "e", "n", "d", "a", "t", "i", "o", "n">>)))),
            article |-> IF Truthy(Get(violation, "article", PyNone))
                        THEN PyStr(PyStrOf(Get(violation, "article", PyStr(<<>>))))
                        ELSE PyNone])

\* the loop over result["violations"]; the first exception ends it
RECURSIVE SanitizeViolations(_)
SanitizeViolations(violations) ==
    IF violations = <<>> THEN Return(<<>>)
    ELSE LET rest == SanitizeViolations(Tail(violations))
             head == IF Head(violations).t = "obj"
                     THEN SanitizeViolation(Head(violations).v)
                     ELSE Return(PyNone)
         IN IF Raised(head) THEN head
            ELSE IF Raised(rest) THEN rest
            ELSE IF Head(violations).t = "obj"
            THEN Return(<<head.ok>> \o rest.ok)
            ELSE rest

\* mutant of SanitizeScore: the range check is dropped
SanitizeScore_Unclamped(score) ==
    IF ~IsNumber(score) THEN Return(PyInt(0))
    ELSE LET n == PyIntOf(score)
         IN IF Raised(n) THEN n ELSE Return(PyInt(n.ok))

\* the score after "Validate score is in range 0-100"
SanitizeScore(score) ==
    IF ~IsNumber(score) THEN Return(PyInt(0))
    ELSE LET n == PyIntOf(score)
         IN IF Raised(n) THEN n ELSE Return(PyInt(Max(0, Min(100, n.ok))))

validate_and_sanitize_response(data) ==
    IF data.t # "obj" THEN Raise("AttributeError")
    ELSE LET score == SanitizeScore(Get(data.v, "score", PyInt(0)))
             raw == Get(data.v, "violations", PyList(<<>>))
             violations == SanitizeViolations(IF raw.t = "arr" THEN raw.v ELSE <<>>)
         IN IF Raised(score) THEN score
            ELSE IF Raised(violations) THEN violations
            ELSE Return([passed |-> Get(data.v, "passed", PyBool(FALSE)),
                         violations |-> PyList(violations.ok),
                         score |-> score.ok])

parse_json_response(response) ==
    LET cleaned == RemoveCodeBlocks(strip(response))
        direct == json_loads(cleaned)
        match == SearchObject(cleaned)
    IN IF ~Raised(direct) THEN validate_and_sanitize_response(direct.ok)
       ELSE IF direct.exc # "JSONDecodeError" THEN direct
       ELSE IF ~Raised(match) THEN validate_and_sanitize_response(match.ok)
       ELSE Raise("ValueError")

(***************************************************************************)
(* Inputs: repositories, rules, replies.                                   *)
(***************************************************************************)
EmptyDict == [key \in {} |-> 0]

\* code file i of the repository universe: "A/1", "b/[2]", "A/3", "a/4", ...;
\* the second is named like a dynamic-route file, with brackets
CodePath(i) ==
    IF i = 2 THEN <<"b", "/", "[", "2", "]">>
    ELSE <<(IF i % 2 = 1 THEN "A" ELSE "a"), "/", DigitChars[i + 1]>>

\* document file i of the repository universe: "d1.md", ...
DocPath(i) == <<"d", DigitChars[i + 1], ".", "m", "d">>

\* a path no repository of the model holds
UnknownPath == <<"z", "z", "/", "7">>

\* what get_all_files returns for a repository holding the first nc code
\* files and the first nd document files of the universe
get_all_files(nc, nd) ==
    [code_files |-> sorted([i \in 1..nc |-> CodePath(i)]),
     doc_files |-> sorted([i \in 1..nd |-> DocPath(i)])]

Listings == {get_all_files(nc, nd) : nc \in 0..NumCode, nd \in 0..NumDoc}

KeywordLists == {<<>>, << <<"A">> >>, << <<"z", "z">>, <<"B">> >>}

CodeChecksDicts ==
    {EmptyDict, "enabled" :> FALSE, "enabled" :> TRUE}
    \cup {("enabled" :> TRUE) @@ ("file_keywords" :> kw) : kw \in KeywordLists}

RuleId == PyStr(<<"r", "1">>)

\* rule dicts, every field optional
Rules ==
    {a @@ b @@ c :
        a \in {EmptyDict, "id" :> RuleId},
        b \in {EmptyDict} \cup
              {"check_type" :> ct : ct \in {"code", "document", "both", "other"}},
        c \in {EmptyDict} \cup {"code_checks" :> cc : cc \in CodeChecksDicts}}

\* reply texts carrying one JSON value: bare, padded, fenced, after prose
Wrappings(value) ==
    {<<TokJson(value)>>,
     <<TokWs, TokJson(value), TokWs>>,
     <<TokJFence, TokWs, TokJson(value), TokWs, TokFence>>,
     <<TokFence, TokJson(value), TokFence>>,
     <<TokTxt, TokWs, TokJson(value)>>,
     <<TokTxt, TokJFence, TokJson(value), TokFence, TokTxt>>}

\* reply texts carrying no usable JSON value
BrokenReplies ==
    {<<>>, <<TokTxt>>, <<TokJFence, TokTxt, TokFence>>,
     <<TokJson(PyInt(7)), TokTxt, TokJson(PyInt(7))>>}

\* reply texts that open with, or hold after prose, arrays nested too deep
DeepReplies == {<<TokDeep>>, <<TokTxt, TokWs, TokDeep>>}

\* arrays a file-selection reply may hold: known names (repeats allowed),
\* unknown names, in any order
SelectionArrays(files) ==
    LET entries == {PyStr(files[1]), PyStr(files[Len(files)]), PyStr(UnknownPath)}
    IN UNION {[1..n -> entries] : n \in 0..MaxArr}

SelectionReplies(files) ==
    UNION {Wrappings(PyList(a)) : a \in SelectionArrays(files)}
    \cup Wrappings(PyDict("files" :> PyList(<<PyStr(files[1])>>)))
    \cup BrokenReplies
    \cup DeepReplies

\* a violation as the analysis prompt asks for it
FullViolation ==
    PyDict([file |-> PyStr(CodePath(1)), line |-> PyInt(42),
            severity |-> PyStr(<<"h", "i", "g", "h">>),
            issue |-> PyStr(<<"i">>), recommendation |-> PyStr(<<"r">>),
            article |-> PyStr(<<"6">>)])

BareViolation == PyDict("file" :> PyStr(CodePath(1)))

\* the line and the article given as null
NullableViolation ==
    PyDict([FullViolation.v EXCEPT !.line = PyNone, !.article = PyNone,
                                   !.severity = PyStr(<<"c", "r", "i", "t", "i", "c", "a", "l">>)])

\* the line given as 0, the article as the empty string
FalsyViolation ==
    PyDict([FullViolation.v EXCEPT !.line = PyInt(0), !.article = PyStr(<<>>)])

\* a severity outside critical / high / medium
LowSeverityViolation ==
    PyDict([FullViolation.v EXCEPT !.severity = PyStr(<<"l", "o", "w">>)])

\* a key the prompt did not ask for
ExtraKeyViolation ==
    PyDict(FullViolation.v @@ ("explanation" :> PyStr(<<"e">>)))

BadLineViolation == PyDict("line" :> PyStr(<<"a", "b", "c">>))

PassedValues == {PyBool(TRUE), PyBool(FALSE), PyNone, PyStr(<<"y", "e", "s">>)}

ScoreValues ==
    {PyInt(45), PyInt(150), PyInt(-5), PyFloat(457), PyBool(TRUE),
     PyStr(<<"a", "b", "c">>), PyNone, PyNaN, PyInf}

ViolationsValues ==
    {PyList(<<>>), PyList(<<FullViolation>>),
     PyList(<<PyStr(<<"x">>), BareViolation>>),
     PyList(<<BadLineViolation>>), PyStr(<<"n", "o", "n", "e">>),
     PyList(<<NullableViolation, FullViolation>>),
     PyList(<<FalsyViolation>>),
     PyList(<<LowSeverityViolation>>),
     PyList(<<ExtraKeyViolation>>)}

BaseAnalysis == [passed |-> PyBool(FALSE), violations |-> PyList(<<>>), score |-> PyInt(45)]

\* analysis objects: the base object with one key changed or dropped
AnalysisObjects ==
    {PyDict(BaseAnalysis), PyDict(EmptyDict)}
    \cup {PyDict([BaseAnalysis EXCEPT !.passed = x]) : x \in PassedValues}
    \cup {PyDict([BaseAnalysis EXCEPT !.score = x]) : x \in ScoreValues}
    \cup {PyDict([BaseAnalysis EXCEPT !.violations = x]) : x \in ViolationsValues}
    \cup {PyDict([key \in {"violations", "score"} |-> BaseAnalysis[key]]),
          PyDict([key \in {"passed", "violations"} |-> BaseAnalysis[key]]),
          PyDict([key \in {"passed", "score"} |-> BaseAnalysis[key]])}

AnalysisReplies ==
    UNION {Wrappings(obj) : obj \in AnalysisObjects}
    \cup Wrappings(PyList(<<PyDict(BaseAnalysis)>>))
    \cup Wrappings(PyList(<<PyInt(7)>>))
    \cup Wrappings(PyStr(<<"o", "k">>))
    \cup BrokenReplies
    \cup DeepReplies

(***************************************************************************)
(* llm_client.py                                                           *)
(***************************************************************************)
\* FeatherlessClient(): the key comes from the environment
FeatherlessClient(key_set) ==
    IF key_set THEN Return("client") ELSE Raise("ValueError")

(***************************************************************************)
(* analyzer.py: analyze_rule, and file_selector.py: select_best_files.     *)
(* One action per stretch of code between two suspension points or I/O     *)
(* calls.                                                                  *)
(***************************************************************************)
MaxCodeFiles == 3

check_type == Get(rule, "check_type", "both")
code_checks == Get(rule, "code_checks", EmptyDict)
rule_id == Get(rule, "id", PyNone)

\* mutant of CodeHandling: the enabled flag is not consulted
CodeHandling_IgnoresEnabled == check_type \in {"code", "both"}

\* `if check_type in ["code", "both"]` and `if code_checks.get("enabled", False)`
CodeHandling == check_type \in {"code", "both"} /\ Get(code_checks, "enabled", FALSE)

\* `if check_type in ["document", "both"]`
DocHandling == check_type \in {"document", "both"}

\* the result returned when no file is selected
ShortCircuitResult ==
    [rule_id |-> rule_id, passed |-> PyBool(TRUE), violations |-> PyList(<<>>),
     score |-> PyInt(100), files_analyzed |-> <<>>,
     note |-> "No relevant files found to analyze"]

\* mutant of DegradedResult: reports the files attempted, not the files read
DegradedResult_FilesAttempted(e) ==
    [rule_id |-> rule_id, passed |-> PyNone, violations |-> PyList(<<>>),
     score |-> PyInt(0), files_analyzed |-> selected_files, error |-> e]

\* the result returned by the except clause
DegradedResult(e) ==
    [rule_id |-> rule_id, passed |-> PyNone, violations |-> PyList(<<>>),
     score |-> PyInt(0), files_analyzed |-> file_contents, error |-> e]

\* result["rule_id"] = ...; result["files_analyzed"] = ...
WithMetadata(parsed) ==
    [key \in DOMAIN parsed \cup {"rule_id", "files_analyzed"} |->
        IF key = "rule_id" THEN rule_id
        ELSE IF key = "files_analyzed" THEN file_contents
        ELSE parsed[key]]

\* file_contents[filepath] = content, on the dict's key order
DictSet(keys, key) == IF InList(key, keys) THEN keys ELSE Append(keys, key)

\* `if llm_client is None: llm_client = FeatherlessClient()`
Enter ==
    /\ pc = "entry"
    /\ LET made == FeatherlessClient(env_key)
       IN IF llm_client # "None"
          THEN pc' = "files" /\ UNCHANGED <<llm_client, escaped>>
          ELSE IF Raised(made)
          THEN pc' = "raised" /\ escaped' = made.exc /\ UNCHANGED llm_client
          ELSE pc' = "files" /\ llm_client' = made.ok /\ UNCHANGED escaped
    /\ UNCHANGED <<caller, rule, all_files, env_key, max_files, filtered_code,
                   code_files, selected_files, file_contents, read_log, calls,
                   sel_outcome, llm_outcome, result, fn_args, fn_ret, current,
                   suspended, disk, clones>>

\* listing, check type, keyword filter, up to the call of select_best_files
ResolveFiles ==
    /\ pc = "files"
    /\ LET filtered == filter_by_keywords(all_files.code_files,
                           Get(code_checks, "file_keywords", <<>>))
       IN IF CodeHandling /\ filtered # <<>>
          THEN pc' = "sbf_entry" /\ filtered_code' = filtered
          ELSE pc' = "combine" /\ UNCHANGED filtered_code
    /\ UNCHANGED <<caller, rule, all_files, llm_client, env_key, max_files,
                   code_files, selected_files, file_contents, read_log, calls,
                   sel_outcome, llm_outcome, result, escaped, fn_args, fn_ret,
                   current, suspended, disk, clones>>

\* where select_best_files goes back to
AfterSelect == IF caller = "analyze_rule" THEN "combine" ELSE "returned"

\* mutant of SbfEntry: the client is built before the candidate count is tested
SbfEntry_ClientFirst ==
    /\ pc = "sbf_entry"
    /\ LET made == FeatherlessClient(env_key)
       IN IF llm_client = "None" /\ Raised(made)
          THEN /\ pc' = "raised"
               /\ escaped' = made.exc
               /\ UNCHANGED <<llm_client, code_files, calls>>
          ELSE IF Len(filtered_code) <= max_files
          THEN /\ code_files' = filtered_code
               /\ pc' = AfterSelect
               /\ UNCHANGED <<llm_client, escaped, calls>>
          ELSE /\ llm_client' = "client"
               /\ calls' = Append(calls, "select")
               /\ pc' = "sbf_wait"
               /\ UNCHANGED <<code_files, escaped>>
    /\ UNCHANGED <<caller, rule, all_files, env_key, max_files, filtered_code,
                   selected_files, file_contents, read_log, sel_outcome,
                   llm_outcome, result, fn_args, fn_ret, current, suspended,
                   disk, clones>>

\* select_best_files up to its completion call
SbfEntry ==
    /\ pc = "sbf_entry"
    /\ LET made == FeatherlessClient(env_key)
       IN IF Len(filtered_code) <= max_files
          THEN /\ code_files' = filtered_code
               /\ pc' = AfterSelect
               /\ UNCHANGED <<llm_client, escaped, calls>>
          ELSE IF filtered_code = <<>>
          THEN /\ code_files' = <<>>
               /\ pc' = AfterSelect
               /\ UNCHANGED <<llm_client, escaped, calls>>
          ELSE IF llm_client = "None" /\ Raised(made)
          THEN /\ pc' = "raised"
               /\ escaped' = made.exc
               /\ UNCHANGED <<llm_client, code_files, calls>>
          ELSE /\ llm_client' = "client"
               /\ calls' = Append(calls, "select")
               /\ pc' = "sbf_wait"
               /\ UNCHANGED <<code_files, escaped>>
    /\ UNCHANGED <<caller, rule, all_files, env_key, max_files, filtered_code,
                   selected_files, file_contents, read_log, sel_outcome,
                   llm_outcome, result, fn_args, fn_ret, current, suspended,
                   disk, clones>>

\* mutant of SbfReply: the validated list is not cut to max_files
SbfReply_Untruncated ==
    /\ pc = "sbf_wait"
    /\ \E response \in SelectionReplies(filtered_code) :
          LET selected == parse_file_selection_response(response, filtered_code)
          IN IF Raised(selected)
             THEN /\ code_files' = Take(filtered_code, max_files)
                  /\ sel_outcome' = "parse_raised"
             ELSE /\ code_files' = selected.ok
                  /\ sel_outcome' = IF Raised(SelectedList(response))
                                     THEN "unparsed" ELSE "reply"
    /\ pc' = AfterSelect
    /\ UNCHANGED <<caller, rule, all_files, llm_client, env_key, max_files,
                   filtered_code, selected_files, file_contents, read_log, calls,
                   llm_outcome, result, escaped, fn_args, fn_ret, current,
                   suspended, disk, clones>>

\* the completion call returns text: parse, validate, truncate; what the
\* parser raises lands in the except clause with the provider's failures
SbfReply ==
    /\ pc = "sbf_wait"
    /\ \E response \in SelectionReplies(filtered_code) :
          LET selected == parse_file_selection_response(response, filtered_code)
          IN IF Raised(selected)
             THEN /\ code_files' = Take(filtered_code, max_files)
                  /\ sel_outcome' = "parse_raised"
             ELSE /\ code_files' = Take(selected.ok, max_files)
                  /\ sel_outcome' = IF Raised(SelectedList(response))
                                     THEN "unparsed" ELSE "reply"
    /\ pc' = AfterSelect
    /\ UNCHANGED <<caller, rule, all_files, llm_client, env_key, max_files,
                   filtered_code, selected_files, file_contents, read_log, calls,
                   llm_outcome, result, escaped, fn_args, fn_ret, current,
                   suspended, disk, clones>>

\* mutant of SbfFail: the fallback returns every candidate
SbfFail_ReturnsAll ==
    /\ pc = "sbf_wait"
    /\ code_files' = filtered_code
    /\ sel_outcome' = "raised"
    /\ pc' = AfterSelect
    /\ UNCHANGED <<caller, rule, all_files, llm_client, env_key, max_files,
                   filtered_code, selected_files, file_contents, read_log, calls,
                   llm_outcome, result, escaped, fn_args, fn_ret, current,
                   suspended, disk, clones>>

\* the completion call raises: the except clause of select_best_files
SbfFail ==
    /\ pc = "sbf_wait"
    /\ code_files' = Take(filtered_code, max_files)
    /\ sel_outcome' = "raised"
    /\ pc' = AfterSelect
    /\ UNCHANGED <<caller, rule, all_files, llm_client, env_key, max_files,
                   filtered_code, selected_files, file_contents, read_log, calls,
                   llm_outcome, result, escaped, fn_args, fn_ret, current,
                   suspended, disk, clones>>

\* mutant of Combine: the `if not selected_files` short-circuit is missing
Combine_NoShortCircuit ==
    /\ pc = "combine"
    /\ selected_files' = code_files \o (IF DocHandling THEN all_files.doc_files ELSE <<>>)
    /\ pc' = "read"
    /\ UNCHANGED <<caller, rule, all_files, llm_client, env_key, max_files,
                   filtered_code, code_files, file_contents, read_log, calls,
                   sel_outcome, llm_outcome, result, escaped, fn_args, fn_ret,
                   current, suspended, disk, clones>>

\* document files, the combined list, and the short-circuit on an empty list
Combine ==
    /\ pc = "combine"
    /\ LET doc_files == IF DocHandling THEN all_files.doc_files ELSE <<>>
           selected == code_files \o doc_files
       IN /\ selected_files' = selected
          /\ IF selected = <<>>
             THEN pc' = "done" /\ result' = ShortCircuitResult
             ELSE pc' = "read" /\ UNCHANGED result
    /\ UNCHANGED <<caller, rule, all_files, llm_client, env_key, max_files,
                   filtered_code, code_files, file_contents, read_log, calls,
                   sel_outcome, llm_outcome, escaped, fn_args, fn_ret, current,
                   suspended, disk, clones>>

\* one iteration of the read loop whose read_file call returns
ReadFileOk ==
    /\ pc = "read"
    /\ Len(read_log) < Len(selected_files)
    /\ file_contents' = DictSet(file_contents, selected_files[Len(read_log) + 1])
    /\ read_log' = Append(read_log, TRUE)
    /\ UNCHANGED <<pc, caller, rule, all_files, llm_client, env_key, max_files,
                   filtered_code, code_files, selected_files, calls, sel_outcome,
                   llm_outcome, result, escaped, fn_args, fn_ret, current,
                   suspended, disk, clones>>

\* mutant of ReadFileFail: the unreadable file is recorded all the same
ReadFileFail_Records ==
    /\ pc = "read"
    /\ Len(read_log) < Len(selected_files)
    /\ file_contents' = DictSet(file_contents, selected_files[Len(read_log) + 1])
    /\ read_log' = Append(read_log, FALSE)
    /\ UNCHANGED <<pc, caller, rule, all_files, llm_client, env_key, max_files,
                   filtered_code, code_files, selected_files, calls, sel_outcome,
                   llm_outcome, result, escaped, fn_args, fn_ret, current,
                   suspended, disk, clones>>

\* one iteration of the read loop whose read_file call raises
ReadFileFail ==
    /\ pc = "read"
    /\ Len(read_log) < Len(selected_files)
    /\ read_log' = Append(read_log, FALSE)
    /\ UNCHANGED <<pc, caller, rule, all_files, llm_client, env_key, max_files,
                   filtered_code, code_files, selected_files, file_contents,
                   calls, sel_outcome, llm_outcome, result, escaped, fn_args,
                   fn_ret, current, suspended, disk, clones>>

\* call_llm_for_rule up to its completion call
CallLLM ==
    /\ pc = "read"
    /\ Len(read_log) = Len(selected_files)
    /\ calls' = Append(calls, "analysis")
    /\ pc' = "analysis_wait"
    /\ UNCHANGED <<caller, rule, all_files, llm_client, env_key, max_files,
                   filtered_code, code_files, selected_files, file_contents,
                   read_log, sel_outcome, llm_outcome, result, escaped, fn_args,
                   fn_ret, current, suspended, disk, clones>>

\* parse_json_response(response) over the replies of the model
AnalysisParses == {parse_json_response(response) : response \in AnalysisReplies}

\* the completion call returns text: parse, add metadata, or degrade
AnalysisReply ==
    /\ pc = "analysis_wait"
    /\ \E parsed \in AnalysisParses :
          IF Raised(parsed)
          THEN result' = DegradedResult(parsed.exc) /\ llm_outcome' = parsed.exc
          ELSE result' = WithMetadata(parsed.ok) /\ llm_outcome' = "parsed"
    /\ pc' = "done"
    /\ UNCHANGED <<caller, rule, all_files, llm_client, env_key, max_files,
                   filtered_code, code_files, selected_files, file_contents,
                   read_log, calls, sel_outcome, escaped, fn_args, fn_ret,
                   current, suspended, disk, clones>>

\* mutant of AnalysisFail: a failed analysis call is issued again
AnalysisFail_Retries ==
    /\ pc = "analysis_wait"
    /\ llm_outcome' = "raised"
    /\ pc' = "read"
    /\ UNCHANGED <<caller, rule, all_files, llm_client, env_key, max_files,
                   filtered_code, code_files, selected_files, file_contents,
                   read_log, calls, sel_outcome, result, escaped, fn_args,
                   fn_ret, current, suspended, disk, clones>>

\* the completion call raises: the except clause of analyze_rule
AnalysisFail ==
    /\ pc = "analysis_wait"
    /\ result' = DegradedResult("Exception")
    /\ llm_outcome' = "raised"
    /\ pc' = "done"
    /\ UNCHANGED <<caller, rule, all_files, llm_client, env_key, max_files,
                   filtered_code, code_files, selected_files, file_contents,
                   read_log, calls, sel_outcome, escaped, fn_args, fn_ret,
                   current, suspended, disk, clones>>

\* one evaluation of analyze_rule(rule, repo_path, llm_client)
Init ==
    /\ pc = "entry"
    /\ caller = "analyze_rule"
    /\ rule \in Rules
    /\ all_files \in Listings
    /\ llm_client \in {"None", "client"}
    /\ env_key \in BOOLEAN
    /\ llm_client = "client" => env_key   \* the environment is read only without a client
    /\ max_files = MaxCodeFiles
    /\ filtered_code = <<>>
    /\ code_files = <<>>
    /\ selected_files = <<>>
    /\ file_contents = <<>>
    /\ read_log = <<>>
    /\ calls = <<>>
    /\ sel_outcome = "none"
    /\ llm_outcome = "none"
    /\ result = EmptyDict
    /\ escaped = "none"
    /\ fn_args = EmptyDict
    /\ fn_ret = <<>>
    /\ current = 1
    /\ suspended = <<>>
    /\ disk = EmptyDict
    /\ clones = <<>>

Next ==
    \/ Enter
    \/ ResolveFiles
    \/ SbfEntry
    \/ SbfReply
    \/ SbfFail
    \/ Combine
    \/ ReadFileOk
    \/ ReadFileFail
    \/ CallLLM
    \/ AnalysisReply
    \/ AnalysisFail

Spec == Init /\ [][Next]_vars

(***************************************************************************)
(* Properties of analyze_rule, checked under Spec.                         *)
(***************************************************************************)
Returned == pc = "done"

\* the selected files whose read_file call returned, in call order
RECURSIVE ReadsThatSucceeded(_, _)
ReadsThatSucceeded(files, log) ==
    IF files = <<>> \/ log = <<>> THEN <<>>
    ELSE (IF Head(log) THEN <<Head(files)>> ELSE <<>>)
         \o ReadsThatSucceeded(Tail(files), Tail(log))

\* a sequence without its repeated entries, first occurrences kept
RECURSIVE FirstOccurrences(_)
FirstOccurrences(seq) ==
    IF seq = <<>> THEN <<>>
    ELSE LET front == FirstOccurrences(SubSeq(seq, 1, Len(seq) - 1))
             last == seq[Len(seq)]
         IN IF \E i \in 1..(Len(seq) - 1) : seq[i] = last
            THEN front
            ELSE Append(front, last)

\* C1: no exception leaves analyze_rule, for every rule, repository, provider
\* behaviour, and with or without a client supplied by the caller.
C1_NoExceptionEscapes == escaped = "none" /\ pc # "raised"

\* C2: in every returned RuleResult, passed is null if and only if the
\* result carries an error field.
C2_PassedNullIffError ==
    Returned => ((result.passed = PyNone) <=> ("error" \in DOMAIN result))

\* C3: every returned RuleResult has the evaluated rule's id as rule_id, a
\* list as violations and an integer score with 0 <= score <= 100.
C3_ResultShape ==
    Returned =>
        /\ "rule_id" \in DOMAIN result
        /\ result.rule_id = (IF "id" \in DOMAIN rule THEN rule["id"] ELSE PyNone)
        /\ "violations" \in DOMAIN result
        /\ result.violations.t = "arr"
        /\ "score" \in DOMAIN result
        /\ result.score.t = "int"
        /\ result.score.v \in 0..100

\* C3 witness: a parsed reply whose score of 150 was clamped to 100.
C3_Witness ==
    /\ Returned
    /\ llm_outcome = "parsed"
    /\ result.score = PyInt(100)
    /\ "id" \in DOMAIN rule

\* C4: when the analysis completion call fails, or its reply cannot be
\* parsed into an object, the result is degraded: passed null, score 0, no
\* violations, files_analyzed the files read, an error string; violations
\* are non-empty only in results built from a parsed reply.
C4_DegradedOnFailure ==
    /\ (Returned /\ llm_outcome \notin {"none", "parsed"}) =>
          /\ DOMAIN result =
                {"rule_id", "passed", "violations", "score", "files_analyzed", "error"}
          /\ result.passed = PyNone
          /\ result.score = PyInt(0)
          /\ result.violations = PyList(<<>>)
          /\ {result.files_analyzed[i] : i \in 1..Len(result.files_analyzed)}
                = {selected_files[i] : i \in {j \in 1..Len(read_log) : read_log[j]}}
          /\ Len(result.files_analyzed) = Cardinality(
                {selected_files[i] : i \in {j \in 1..Len(read_log) : read_log[j]}})
    /\ (Returned /\ result.violations.v # <<>>) => llm_outcome = "parsed"

\* C4 witness: a reply that is no JSON object, after at least one file was
\* read and at least one read failed.
C4_Witness ==
    /\ Returned
    /\ llm_outcome = "ValueError"
    /\ result.files_analyzed # <<>>
    /\ \E i \in 1..Len(read_log) : ~read_log[i]

C6_FilesAnalyzedExactSequence ==
    /\ (pc \in {"analysis_wait", "done"} /\ selected_files # <<>>) =>
          /\ Len(read_log) = Len(selected_files)
          /\ calls # <<>> /\ calls[Len(calls)] = "analysis"
    /\ (Returned /\ selected_files # <<>>) =>
          result.files_analyzed = ReadsThatSucceeded(selected_files, read_log)

\* C6 amended: a failed read aborts nothing, and files_analyzed holds, once
\* each and in order of first successful read, exactly the selected paths
\* for which a read succeeded.
C6_FilesAnalyzedFirstReads ==
    /\ (pc \in {"analysis_wait", "done"} /\ selected_files # <<>>) =>
          /\ Len(read_log) = Len(selected_files)
          /\ calls # <<>> /\ calls[Len(calls)] = "analysis"
    /\ (Returned /\ selected_files # <<>>) =>
          result.files_analyzed =
              FirstOccurrences(ReadsThatSucceeded(selected_files, read_log))

\* C6 witness: a read failed, a later read succeeded, the reply was parsed.
C6_Witness ==
    /\ Returned
    /\ llm_outcome = "parsed"
    /\ \E i, j \in 1..Len(read_log) : i < j /\ ~read_log[i] /\ read_log[j]
    /\ result.files_analyzed # <<>>

\* C7: the code part of the selection is select_best_files (max 3) over the
\* keyword-filtered code files when the check type is code or both (the
\* default) and code_checks.enabled is true, and empty otherwise; the
\* document part is the whole document list when the check type is
\* document or both, and empty otherwise; the selection is the code part
\* followed by the document part, with at most 3 code files.
C7_CodeOn ==
    /\ "check_type" \in DOMAIN rule => rule["check_type"] \in {"code", "both"}
    /\ "code_checks" \in DOMAIN rule
    /\ "enabled" \in DOMAIN rule["code_checks"]
    /\ rule["code_checks"]["enabled"]

C7_DocOn ==
    "check_type" \in DOMAIN rule => rule["check_type"] \in {"document", "both"}

C7_Keywords ==
    IF "file_keywords" \in DOMAIN rule["code_checks"]
    THEN rule["code_checks"]["file_keywords"]
    ELSE <<>>

C26_AtMostTwoCalls ==
    /\ calls \in {<<>>, <<"select">>, <<"analysis">>, <<"select", "analysis">>}
    /\ InList("select", calls) => Len(filtered_code) > MaxCodeFiles
    /\ InList("analysis", calls) =>
          /\ pc \in {"analysis_wait", "done"}
          /\ Len(read_log) = Len(selected_files)
          /\ InList("select", calls) => sel_outcome # "none"
    /\ pc = "sbf_wait" => calls = <<"select">> /\ read_log = <<>>
    /\ (Returned /\ sel_outcome = "raised") => calls = <<"select", "analysis">>

\* C26 witness: the selection call failed, the analysis call failed too, and
\* the evaluation returned after exactly these two calls
C26_Witness ==
    /\ Returned
    /\ sel_outcome = "raised"
    /\ llm_outcome = "raised"
    /\ calls = <<"select", "analysis">>

\* the rule has candidate files: keyword-filtered code files under code
\* handling, or document files under document handling
HasCandidates ==
    \/ CodeHandling /\ filter_by_keywords(all_files.code_files,
                           Get(code_checks, "file_keywords", <<>>)) # <<>>
    \/ DocHandling /\ all_files.doc_files # <<>>

\* C27: the passing 'No relevant files found' result is returned only when
\* the rule had no candidate files at all; with candidate files, no reply
\* of the file-selection call leads to that result
C27_PassingOnlyWithoutCandidates ==
    (Returned /\ "note" \in DOMAIN result) => ~HasCandidates

\* C29: the analysis call is issued only when the content of at least one
\* selected file was read; if every read fails, no analysis prompt is sent
\* and no result derived from a model reply is reported
C29_AnalysisOnlyWithContent ==
    /\ InList("analysis", calls) => file_contents # <<>>
    /\ (Returned /\ llm_outcome = "parsed") => file_contents # <<>>

(***************************************************************************)
(* filter_by_keywords called on its own: SpecFilter.                       *)
(***************************************************************************)
MaxFilterLen == 3
MaxKeywords == 2

\* lists of length at most n over the set S
ListsUpTo(S, n) == UNION {[1..k -> S] : k \in 0..n}

\* file paths and keywords in mixed case: "Ab", "ba", "B", "a/B"; the
\* keywords include the empty string and one that no path contains
FilterPaths == {<<"A", "b">>, <<"b", "a">>, <<"B">>, <<"a", "/", "B">>}
FilterKeywords == {<<"A", "B">>, <<"b">>, <<"/">>, <<>>, <<"z">>}

InitFilter ==
    /\ pc = "filter_call"
    /\ caller = "direct"
    /\ fn_args \in [files : ListsUpTo(FilterPaths, MaxFilterLen),
                    keywords : ListsUpTo(FilterKeywords, MaxKeywords)]
    /\ fn_ret = <<>>
    /\ rule = EmptyDict
    /\ all_files = get_all_files(0, 0)
    /\ llm_client = "None"
    /\ env_key = FALSE
    /\ max_files = MaxCodeFiles
    /\ filtered_code = <<>>
    /\ code_files = <<>>
    /\ selected_files = <<>>
    /\ file_contents = <<>>
    /\ read_log = <<>>
    /\ calls = <<>>
    /\ sel_outcome = "none"
    /\ llm_outcome = "none"
    /\ result = EmptyDict
    /\ escaped = "none"
    /\ current = 1
    /\ suspended = <<>>
    /\ disk = EmptyDict
    /\ clones = <<>>

\* filter_by_keywords(files, keywords) runs and returns
FilterCall ==
    /\ pc = "filter_call"
    /\ fn_ret' = filter_by_keywords(fn_args.files, fn_args.keywords)
    /\ pc' = "filter_done"
    /\ UNCHANGED <<caller, rule, all_files, llm_client, env_key, max_files,
                   filtered_code, code_files, selected_files, file_contents,
                   read_log, calls, sel_outcome, llm_outcome, result, escaped,
                   fn_args, current, suspended, disk, clones>>

NextFilter == FilterCall

SpecFilter == InitFilter /\ [][NextFilter]_vars

\* the path's lower-cased form contains the lower-cased form of a keyword
MatchesKeyword(path, K) ==
    \E k \in 1..Len(K) : StrContains(LowerStr(path), LowerStr(K[k]))

\* the positions of F whose path matches a keyword of K
MatchingPositions(F, K) == {i \in 1..Len(F) : MatchesKeyword(F[i], K)}

\* the j-th smallest member of the set of positions M
NthPosition(M, j) == CHOOSE i \in M : Cardinality({m \in M : m <= i}) = j

\* C8: filter_by_keywords(F, K) is F when K is empty; otherwise it is the
\* paths of F at the positions whose lower-cased path contains the lower-cased
\* form of some keyword of K, every such position once and no other, in the
\* order of F.
C8_KeywordFilter ==
    pc = "filter_done" =>
        LET F == fn_args.files
            K == fn_args.keywords
            M == MatchingPositions(F, K)
        IN IF K = <<>> THEN fn_ret = F
           ELSE /\ Len(fn_ret) = Cardinality(M)
                /\ \A j \in 1..Len(fn_ret) : fn_ret[j] = F[NthPosition(M, j)]

\* C8 witness: keywords given, two of three paths returned, the first of
\* them matched only through lower-casing ("Ab" against "AB"), one path
\* dropped between them.
C8_Witness ==
    /\ pc = "filter_done"
    /\ fn_args.keywords = << <<"A", "B">>, <<"/">> >>
    /\ fn_args.files = << <<"A", "b">>, <<"b", "a">>, <<"a", "/", "B">> >>
    /\ fn_ret = << <<"A", "b">>, <<"a", "/", "B">> >>

(***************************************************************************)
(* select_best_files called on its own: SpecSelect.                        *)
(***************************************************************************)
MaxMaxFiles == 4

InitSelect ==
    /\ pc = "sbf_entry"
    /\ caller = "direct"
    /\ filtered_code \in {get_all_files(nc, 0).code_files : nc \in 0..NumCode}
    /\ max_files \in 0..MaxMaxFiles
    /\ llm_client \in {"None", "client"}
    /\ env_key \in BOOLEAN
    /\ llm_client = "client" => env_key
    /\ rule = EmptyDict
    /\ all_files = get_all_files(0, 0)
    /\ code_files = <<>>
    /\ selected_files = <<>>
    /\ file_contents = <<>>
    /\ read_log = <<>>
    /\ calls = <<>>
    /\ sel_outcome = "none"
    /\ llm_outcome = "none"
    /\ result = EmptyDict
    /\ escaped = "none"
    /\ fn_args = EmptyDict
    /\ fn_ret = <<>>
    /\ current = 1
    /\ suspended = <<>>
    /\ disk = EmptyDict
    /\ clones = <<>>

NextSelect ==
    \/ SbfEntry
    \/ SbfReply
    \/ SbfFail

SpecSelect == InitSelect /\ [][NextSelect]_vars

\* C9: with at most max_files candidates select_best_files returns the
\* candidate list itself, raises nothing and has made no completion call,
\* whether or not a client was supplied (and whether or not one could be built).
C9_FewCandidatesUnchanged ==
    Len(filtered_code) <= max_files =>
        /\ pc \in {"sbf_entry", "returned"}
        /\ escaped = "none"
        /\ calls = <<>>
        /\ pc = "returned" => code_files = filtered_code

\* C9 witness: two candidates, max_files above that, no client supplied and
\* no API key to build one from; the call has returned.
C9_Witness ==
    /\ pc = "returned"
    /\ Len(filtered_code) = 2
    /\ max_files > 2
    /\ llm_client = "None"
    /\ ~env_key
    /\ code_files = filtered_code

\* C10: when the completion call of select_best_files has failed (which
\* happens only with more candidates than max_files), nothing is raised and
\* the call has returned the first max_files candidates in their order.
C10_FallbackFirstMaxFiles ==
    sel_outcome = "raised" =>
        /\ Len(filtered_code) > max_files
        /\ escaped = "none"
        /\ pc = "returned"
        /\ Len(code_files) = max_files
        /\ \A i \in 1..max_files : code_files[i] = filtered_code[i]

\* C10 witness: five candidates, max_files 3, the provider raised, three
\* files returned.
C10_Witness ==
    /\ pc = "returned"
    /\ sel_outcome = "raised"
    /\ calls = <<"select">>
    /\ Len(filtered_code) = 5
    /\ max_files = 3
    /\ Len(code_files) = 3

\* C11: when the reply to the selection call yields no JSON array (control
\* reaches "If all parsing fails" in parse_file_selection_response),
\* select_best_files returns the first max_files candidates in their order,
\* as it does when the call raises.
C11_ExtractorFailureFallsBack ==
    sel_outcome = "unparsed" =>
        /\ pc = "returned"
        /\ escaped = "none"
        /\ Len(code_files) = max_files
        /\ \A i \in 1..max_files : code_files[i] = filtered_code[i]

\* C12: whatever the provider does, the list select_best_files returns has
\* at most max_files entries, each of them one of the candidates.
C12_ReturnedWithinCap ==
    pc = "returned" =>
        /\ Len(code_files) <= max_files
        /\ \A i \in 1..Len(code_files) : InList(code_files[i], filtered_code)

\* C12 witness: five candidates, max_files 3, a reply whose array was
\* accepted; three files returned, led by the last candidate and naming one
\* candidate twice, so the list is the reply's and not the fallback's.
C12_Witness ==
    /\ pc = "returned"
    /\ sel_outcome = "reply"
    /\ Len(filtered_code) = 5
    /\ max_files = 3
    /\ Len(code_files) = 3
    /\ code_files[1] = filtered_code[5]
    /\ code_files[2] = code_files[3]

(***************************************************************************)
(* The array-mode parsers called on their own: SpecArray.                  *)
(***************************************************************************)
InitArray ==
    /\ pc = "array_call"
    /\ caller \in {"parse_file_selection_response", "parse_llm_file_selection"}
    /\ \E nc \in 1..NumCode :
          LET files == get_all_files(nc, 0).code_files
          IN fn_args \in [response : SelectionReplies(files), files : {files}]
    /\ fn_ret = <<>>
    /\ rule = EmptyDict
    /\ all_files = get_all_files(0, 0)
    /\ llm_client = "None"
    /\ env_key = FALSE
    /\ max_files = MaxCodeFiles
    /\ filtered_code = <<>>
    /\ code_files = <<>>
    /\ selected_files = <<>>
    /\ file_contents = <<>>
    /\ read_log = <<>>
    /\ calls = <<>>
    /\ sel_outcome = "none"
    /\ llm_outcome = "none"
    /\ result = EmptyDict
    /\ escaped = "none"
    /\ current = 1
    /\ suspended = <<>>
    /\ disk = EmptyDict
    /\ clones = <<>>

\* parse_file_selection_response(response, filtered_files) runs to its end
ParseFileSelectionCall ==
    /\ pc = "array_call"
    /\ caller = "parse_file_selection_response"
    /\ fn_ret' = parse_file_selection_response(fn_args.response, fn_args.files)
    /\ pc' = "array_done"
    /\ UNCHANGED <<caller, rule, all_files, llm_client, env_key, max_files,
                   filtered_code, code_files, selected_files, file_contents,
                   read_log, calls, sel_outcome, llm_outcome, result, escaped,
                   fn_args, current, suspended, disk, clones>>

\* parse_llm_file_selection(response, available_files) runs to its end
ParseLlmFileSelectionCall ==
    /\ pc = "array_call"
    /\ caller = "parse_llm_file_selection"
    /\ fn_ret' = parse_llm_file_selection(fn_args.response, fn_args.files)
    /\ pc' = "array_done"
    /\ UNCHANGED <<caller, rule, all_files, llm_client, env_key, max_files,
                   filtered_code, code_files, selected_files, file_contents,
                   read_log, calls, sel_outcome, llm_outcome, result, escaped,
                   fn_args, current, suspended, disk, clones>>

NextArray ==
    \/ ParseFileSelectionCall
    \/ ParseLlmFileSelectionCall

SpecArray == InitArray /\ [][NextArray]_vars

\* the JSON values a reply text holds, in text order
JsonValuesOf(response) ==
    LET at == {i \in 1..Len(response) : response[i].k = "json"}
    IN [j \in 1..Cardinality(at) |-> response[NthPosition(at, j)].v]

\* the reply is one JSON array, bare, padded, fenced or after prose
HoldsOneArray(response) ==
    /\ Len(JsonValuesOf(response)) = 1
    /\ JsonValuesOf(response)[1].t = "arr"
    /\ \A i \in 1..Len(response) : response[i].k # "deep"

\* the positions of the array whose entry is one of the files
MemberPositions(array, files) ==
    {i \in 1..Len(array) : array[i].t = "str" /\ InList(array[i].v, files)}

\* C13: for a reply that holds a JSON array (bare, fenced, or after prose)
\* parse_file_selection_response returns the entries of the array that are
\* in the file list, each as often as the array names it, in the array's
\* order, and raises nothing.
C13_ArrayEntriesInFileList ==
    (/\ pc = "array_done"
     /\ caller = "parse_file_selection_response"
     /\ HoldsOneArray(fn_args.response)) =>
        LET array == JsonValuesOf(fn_args.response)[1].v
            M == MemberPositions(array, fn_args.files)
        IN /\ ~Raised(fn_ret)
           /\ Len(fn_ret.ok) = Cardinality(M)
           /\ \A j \in 1..Cardinality(M) : fn_ret.ok[j] = array[NthPosition(M, j)].v

\* C14: neither array-mode parser raises; each returns a list, and the
\* empty list when the reply holds no JSON value from which the direct parse
\* or the bracket-span search could take an array.
C14_ArrayModeNeverRaises ==
    pc = "array_done" =>
        /\ ~Raised(fn_ret)
        /\ (\A i \in 1..Len(fn_args.response) :
                fn_args.response[i].k = "json" => ~HasBracket(fn_args.response[i].v))
               => fn_ret.ok = <<>>

(***************************************************************************)
(* The object-mode parser and the sanitizer called on their own:           *)
(* SpecObject.                                                             *)
(***************************************************************************)
\* values an analysis reply may hold in place of the object
NonObjectValues ==
    {PyList(<<PyDict(BaseAnalysis)>>), PyList(<<PyInt(7)>>), PyStr(<<"o", "k">>),
     PyInt(7), PyNone}

\* body texts without a fence marker: one value bare, padded, after prose or
\* before prose; no value; two values; arrays nested too deep
BodyTexts ==
    UNION {{<<TokJson(value)>>,
            <<TokWs, TokJson(value), TokWs>>,
            <<TokTxt, TokWs, TokJson(value)>>,
            <<TokJson(value), TokWs, TokTxt>>} :
                value \in AnalysisObjects \cup NonObjectValues}
    \cup {<<>>, <<TokTxt>>,
          <<TokJson(PyInt(7)), TokTxt, TokJson(PyInt(7))>>,
          <<TokJson(PyDict(BaseAnalysis)), TokTxt, TokJson(PyDict(BaseAnalysis))>>}
    \cup DeepReplies

\* another object, to tell which block of a reply was read
OtherObject == PyDict([BaseAnalysis EXCEPT !.score = PyInt(99)])

\* what may precede the fence pair: nothing, prose, an earlier generic block
TextsBefore(fence) ==
    {<<>>, <<TokTxt, TokWs>>}
    \cup (IF fence = "jfence"
          THEN {<<TokFence, TokJson(OtherObject), TokFence, TokWs>>}
          ELSE {})

\* what may follow the fence pair: nothing, prose, a later block of either kind
TextsAfter ==
    {<<>>, <<TokWs, TokTxt>>,
     <<TokFence, TokJson(OtherObject), TokFence>>,
     <<TokJFence, TokJson(OtherObject), TokFence>>}

\* calls of parse_json_response: a body alone, or between a fence pair
ParseCalls ==
    [pre : {<<>>}, fence : {"none"}, body : BodyTexts, post : {<<>>}]
    \cup UNION {[pre : TextsBefore(fence), fence : {fence}, body : BodyTexts,
                 post : TextsAfter] : fence \in {"fence", "jfence"}}

\* the reply text of a call
ReplyText(call) ==
    IF call.fence = "none" THEN call.body
    ELSE call.pre
         \o <<IF call.fence = "jfence" THEN TokJFence ELSE TokFence>>
         \o call.body \o <<TokFence>> \o call.post

InitObject ==
    /\ pc = "object_call"
    /\ \/ caller = "parse_json_response" /\ fn_args \in ParseCalls
       \/ /\ caller = "validate_and_sanitize_response"
          /\ fn_args \in [data : AnalysisObjects]
    /\ fn_ret = <<>>
    /\ rule = EmptyDict
    /\ all_files = get_all_files(0, 0)
    /\ llm_client = "None"
    /\ env_key = FALSE
    /\ max_files = MaxCodeFiles
    /\ filtered_code = <<>>
    /\ code_files = <<>>
    /\ selected_files = <<>>
    /\ file_contents = <<>>
    /\ read_log = <<>>
    /\ calls = <<>>
    /\ sel_outcome = "none"
    /\ llm_outcome = "none"
    /\ result = EmptyDict
    /\ escaped = "none"
    /\ current = 1
    /\ suspended = <<>>
    /\ disk = EmptyDict
    /\ clones = <<>>

\* parse_json_response(response) runs to its end
ParseJsonCall ==
    /\ pc = "object_call"
    /\ caller = "parse_json_response"
    /\ fn_ret' = parse_json_response(ReplyText(fn_args))
    /\ pc' = "object_done"
    /\ UNCHANGED <<caller, rule, all_files, llm_client, env_key, max_files,
                   filtered_code, code_files, selected_files, file_contents,
                   read_log, calls, sel_outcome, llm_outcome, result, escaped,
                   fn_args, current, suspended, disk, clones>>

\* validate_and_sanitize_response(data) runs to its end
SanitizeCall ==
    /\ pc = "object_call"
    /\ caller = "validate_and_sanitize_response"
    /\ fn_ret' = validate_and_sanitize_response(fn_args.data)
    /\ pc' = "object_done"
    /\ UNCHANGED <<caller, rule, all_files, llm_client, env_key, max_files,
                   filtered_code, code_files, selected_files, file_contents,
                   read_log, calls, sel_outcome, llm_outcome, result, escaped,
                   fn_args, current, suspended, disk, clones>>

NextObject ==
    \/ ParseJsonCall
    \/ SanitizeCall

SpecObject == InitObject /\ [][NextObject]_vars

\* the text holds a fence marker of one of the kinds
HoldsFence(text, kinds) == \E i \in 1..Len(text) : text[i].k \in kinds

\* C15: for a body B without fence markers, parse_json_response of B inside
\* the first JSON-tagged fence pair of a reply, or inside the first generic
\* pair of a reply without JSON-tagged fence, gives what
\* parse_json_response(B) gives, result or failure, whatever text surrounds
\* the pair; a generic block before the JSON-tagged one is ignored.
C15_FencedEqualsBody ==
    (/\ pc = "object_done"
     /\ caller = "parse_json_response"
     /\ ~HoldsFence(fn_args.body, {"fence", "jfence"})
     /\ \/ fn_args.fence = "jfence" /\ ~HoldsFence(fn_args.pre, {"jfence"})
        \/ /\ fn_args.fence = "fence"
           /\ ~HoldsFence(fn_args.pre, {"fence", "jfence"})
           /\ ~HoldsFence(fn_args.post, {"jfence"})) =>
        fn_ret = parse_json_response(fn_args.body)

\* C15 witness: a JSON-tagged block holding the base object, padded, after
\* a generic block with another object and before a third block; the base
\* object's score comes back.
C15_Witness ==
    /\ pc = "object_done"
    /\ caller = "parse_json_response"
    /\ fn_args.fence = "jfence"
    /\ HoldsFence(fn_args.pre, {"fence"})
    /\ HoldsFence(fn_args.post, {"jfence"})
    /\ fn_args.body = <<TokWs, TokJson(PyDict(BaseAnalysis)), TokWs>>
    /\ ~Raised(fn_ret)
    /\ fn_ret.ok.score = PyInt(45)

\* the reply text is one JSON value, possibly padded with whitespace
IsBareValue(call) ==
    /\ call.fence = "none"
    /\ Len(JsonValuesOf(call.body)) = 1
    /\ \A i \in 1..Len(call.body) : call.body[i].k \in {"json", "ws"}

ViolationKeys == {"file", "line", "severity", "issue", "recommendation", "article"}

\* a violation entry with the six fields of the expected types
HasValidFields(entry) ==
    /\ entry.t = "obj"
    /\ ViolationKeys \subseteq DOMAIN entry.v
    /\ \A key \in {"file", "severity", "issue", "recommendation"} :
           entry.v[key].t = "str"
    /\ \/ entry.v["line"].t = "null"
       \/ entry.v["line"].t = "int" /\ entry.v["line"].v # 0
    /\ \/ entry.v["article"].t = "null"
       \/ entry.v["article"].t = "str" /\ entry.v["article"].v # <<>>

\* an object with a boolean passed, an integer score in 0..100 and a list
\* of violations with valid fields
IsValidAnalysis(value) ==
    /\ value.t = "obj"
    /\ {"passed", "score", "violations"} \subseteq DOMAIN value.v
    /\ value.v["passed"].t = "bool"
    /\ value.v["score"].t = "int" /\ value.v["score"].v \in 0..100
    /\ value.v["violations"].t = "arr"
    /\ \A i \in 1..Len(value.v["violations"].v) :
           HasValidFields(value.v["violations"].v[i])

\* the parser returned the passed, score and violations values of the object
ReturnsValuesOf(value) ==
    /\ ~Raised(fn_ret)
    /\ fn_ret.ok.passed = value.v["passed"]
    /\ fn_ret.ok.score = value.v["score"]
    /\ Len(fn_ret.ok.violations.v) = Len(value.v["violations"].v)
    /\ \A i \in 1..Len(value.v["violations"].v) :
           fn_ret.ok.violations.v[i] = value.v["violations"].v[i].v

Sanitized == pc = "object_done" /\ caller = "validate_and_sanitize_response"

\* C17: the sanitized score is an integer in 0..100: 100 for a number above
\* 100, 0 for a number below 0, the number cut to an integer when it is in
\* range, and 0 for a missing or non-numeric score.
C17_ScoreClamped ==
    Sanitized =>
        LET given == Get(fn_args.data.v, "score", PyNone)
        IN /\ ~Raised(fn_ret)
           /\ fn_ret.ok.score.t = "int"
           /\ fn_ret.ok.score.v \in 0..100
           /\ given.t = "int" =>
                  fn_ret.ok.score.v = (IF given.v > 100 THEN 100
                                       ELSE IF given.v < 0 THEN 0 ELSE given.v)
           /\ given.t = "float" =>
                  fn_ret.ok.score.v = (IF given.v > 1000 THEN 100
                                       ELSE IF given.v < 0 THEN 0
                                       ELSE given.v \div 10)
           /\ given.t = "inf" => fn_ret.ok.score.v = 100
           /\ given.t \in {"null", "str", "arr", "obj"} => fn_ret.ok.score.v = 0

\* the violations list given to the sanitizer; empty when it is not a list
GivenViolations ==
    LET raw == Get(fn_args.data.v, "violations", PyList(<<>>))
    IN IF raw.t = "arr" THEN raw.v ELSE <<>>

\* the positions of the given list that hold a mapping
MappingPositions == {i \in 1..Len(GivenViolations) : GivenViolations[i].t = "obj"}

\* the defaults named by the sanitizer's contract
DefaultsFilled(given, rebuilt) ==
    /\ DOMAIN rebuilt = ViolationKeys
    /\ "file" \notin DOMAIN given =>
           rebuilt.file = PyStr(<<"u", "n", "k", "n", "o", "w", "n">>)
    /\ ("line" \notin DOMAIN given \/ ~Truthy(Get(given, "line", PyNone))) =>
           rebuilt.line = PyNone
    /\ "severity" \notin DOMAIN given =>
           rebuilt.severity = PyStr(<<"m", "e", "d", "i", "u", "m">>)
    /\ "issue" \notin DOMAIN given =>
           rebuilt.issue =
               PyStr(<<"N", "o", " ", "d", "e", "s", "c", "r", "i", "p", "t", "i", "o", "n">>)
    /\ "recommendation" \notin DOMAIN given =>
           rebuilt.recommendation =
               PyStr(<<"N", "o", " ", "r", "e", "c", "o", "m", "m", "e", "n", "d",
                       "a", "t", "i", "o", "n">>)
    /\ ("article" \notin DOMAIN given \/ Get(given, "article", PyNone) = PyStr(<<>>)) =>
           rebuilt.article = PyNone

\* C18: the sanitizer returns one rebuilt violation per mapping entry of the
\* given list, in order, each with exactly the six keys and with the
\* defaults filled in (a missing or falsy line is null, never 0);
\* non-mapping entries are dropped and a violations value that is not a list
\* gives the empty list.  Stated for data whose score converts, so that a
\* failure shown here comes from the violations.
C18_ViolationsRebuilt ==
    (Sanitized /\ ~Raised(SanitizeScore(Get(fn_args.data.v, "score", PyInt(0))))) =>
        /\ ~Raised(fn_ret)
        /\ Len(fn_ret.ok.violations.v) = Cardinality(MappingPositions)
        /\ \A j \in 1..Cardinality(MappingPositions) :
               DefaultsFilled(GivenViolations[NthPosition(MappingPositions, j)].v,
                              fn_ret.ok.violations.v[j])

Severities ==
    {PyStr(<<"c", "r", "i", "t", "i", "c", "a", "l">>),
     PyStr(<<"h", "i", "g", "h">>),
     PyStr(<<"m", "e", "d", "i", "u", "m">>)}

\* C19: every violation of a result the sanitizer returns has the severity
\* critical, high or medium (a missing or other severity having been
\* replaced by medium).
C19_SeverityCanonical ==
    (Sanitized /\ ~Raised(fn_ret)) =>
        \A j \in 1..Len(fn_ret.ok.violations.v) :
            fn_ret.ok.violations.v[j].severity \in Severities

\* C20: parse_json_response returns a sanitized object with passed,
\* violations and score, or raises the parse failure ValueError and nothing
\* else; it raises the parse failure whenever the reply holds no JSON
\* object, a reply that is JSON of another type included.
C20_ParseFailureOnly ==
    (pc = "object_done" /\ caller = "parse_json_response") =>
        /\ \/ /\ ~Raised(fn_ret)
              /\ DOMAIN fn_ret.ok = {"passed", "violations", "score"}
           \/ fn_ret = Raise("ValueError")
        /\ (\A i \in 1..Len(ReplyText(fn_args)) :
                ReplyText(fn_args)[i].k = "json" => ~HasBrace(ReplyText(fn_args)[i].v))
               => fn_ret = Raise("ValueError")

(***************************************************************************)
(* aggregate_results(results), called on its own.  A RuleResult is a dict  *)
(* (a function over the keys it holds); the call stamps the violation      *)
(* dicts it is handed, so fn_args after the call holds the same objects as *)
(* the caller sees them once the function has returned.                    *)
(***************************************************************************)

\* longest results list handed to aggregate_results
MaxResults == 3

RuleIdOf(n) == PyStr(<<"r", DigitChars[n + 1]>>)

\* a result of analyze_rule's main path: sanitized reply plus metadata
ParsedResult(rid, passed, score, viols) ==
    [rule_id |-> rid, passed |-> PyBool(passed), violations |-> PyList(viols),
     score |-> PyInt(score), files_analyzed |-> <<CodePath(1)>>]

\* a result of analyze_rule's except clause
ErroredResult(rid) ==
    [rule_id |-> rid, passed |-> PyNone, violations |-> PyList(<<>>),
     score |-> PyInt(0), files_analyzed |-> <<>>, error |-> "LLM API request failed"]

\* a result of analyze_rule's short circuit
NoFilesResult(rid) ==
    [rule_id |-> rid, passed |-> PyBool(TRUE), violations |-> PyList(<<>>),
     score |-> PyInt(100), files_analyzed |-> <<>>,
     note |-> "No relevant files found to analyze"]

\* the three shapes analyze_rule returns
AnalyzeRuleResults ==
    {ParsedResult(RuleIdOf(1), FALSE, 80, <<FullViolation>>),
     ParsedResult(RuleIdOf(2), FALSE, 60, <<NullableViolation, LowSeverityViolation>>),
     ParsedResult(RuleIdOf(3), TRUE, 100, <<>>),
     ErroredResult(RuleIdOf(4)),
     NoFilesResult(RuleIdOf(5))}

\* results of other producers: score null, missing, a string, a float,
\* out of range; no rule id; no violations key
ForeignResults ==
    {[rule_id |-> RuleIdOf(6), score |-> PyNone, violations |-> PyList(<<BareViolation>>)],
     "passed" :> PyBool(TRUE),
     [rule_id |-> RuleIdOf(7), score |-> PyStr(<<"8", "5">>)],
     [rule_id |-> RuleIdOf(8), score |-> PyFloat(725), violations |-> PyList(<<>>)],
     [score |-> PyInt(150), violations |-> PyList(<<FullViolation>>)]}

AggregateInputs == ListsUpTo(AnalyzeRuleResults \cup ForeignResults, MaxResults)

\* r.get("score") is not None and isinstance(r.get("score"), (int, float))
HasValidScore(r) == "score" \in DOMAIN r /\ r.score.t # "null" /\ IsNumber(r.score)

\* a numeric score in tenths
ScoreTenths(x) ==
    CASE x.t = "int" -> 10 * x.v
      [] x.t = "bool" -> IF x.v THEN 10 ELSE 0
      [] x.t = "float" -> x.v

\* valid_scores = [r["score"] for r in results if ...]
RECURSIVE valid_scores(_)
valid_scores(results) ==
    IF results = <<>> THEN <<>>
    ELSE (IF HasValidScore(Head(results)) THEN <<Head(results).score>> ELSE <<>>)
         \o valid_scores(Tail(results))

\* sum(valid_scores), in tenths
RECURSIVE SumTenths(_)
SumTenths(scores) ==
    IF scores = <<>> THEN 0
    ELSE ScoreTenths(Head(scores)) + SumTenths(Tail(scores))

\* mutant of PyRound: int(num / den), the fraction dropped
PyRound_Truncating(num, den) == num \div den

\* round(num / den) for den > 0: the nearest integer, a tie going to the
\* even neighbour
PyRound(num, den) ==
    LET q == num \div den
        r == num % den
    IN  IF 2 * r < den THEN q
        ELSE IF 2 * r > den THEN q + 1
        ELSE IF q % 2 = 0 THEN q ELSE q + 1

\* round(sum(valid_scores) / len(valid_scores) if valid_scores else 0)
AverageScore(results) ==
    LET vs == valid_scores(results)
    IN  IF vs = <<>> THEN 0 ELSE PyRound(SumTenths(vs), 10 * Len(vs))

\* v["rule_id"] = result.get("rule_id")
Stamp(v, res) ==
    PyDict([key \in DOMAIN v.v \cup {"rule_id"} |->
               IF key = "rule_id" THEN Get(res, "rule_id", PyNone) ELSE v.v[key]])

\* result.get("violations", [])
ViolationsOf(res) == Get(res, "violations", PyList(<<>>)).v

\* one result after the inner loop has stamped its violations
StampedResult(res) ==
    IF "violations" \in DOMAIN res
    THEN [res EXCEPT !.violations =
             PyList([j \in 1..Len(res.violations.v) |->
                        Stamp(res.violations.v[j], res)])]
    ELSE res

\* all_violations once the outer loop has run
RECURSIVE all_violations(_)
all_violations(results) ==
    IF results = <<>> THEN <<>>
    ELSE ViolationsOf(StampedResult(Head(results))) \o all_violations(Tail(results))

\* mutant of rules_checked: results that carry an error are not counted
rules_checked_SkipsErrored(results) ==
    Cardinality({i \in 1..Len(results) : "error" \notin DOMAIN results[i]})

\* len(results)
rules_checked(results) == Len(results)

\* the dict aggregate_results returns
aggregate_results(results) ==
    IF results = <<>>
    THEN [score |-> 0, violations |-> <<>>, rules_checked |-> 0]
    ELSE [score |-> AverageScore(results),
          violations |-> all_violations(results),
          rules_checked |-> rules_checked(results)]

InitAggregate ==
    /\ pc = "aggregate_call"
    /\ caller = "aggregate_results"
    /\ fn_args \in [results : AggregateInputs]
    /\ fn_ret = <<>>
    /\ rule = EmptyDict
    /\ all_files = get_all_files(0, 0)
    /\ llm_client = "None"
    /\ env_key = FALSE
    /\ max_files = MaxCodeFiles
    /\ filtered_code = <<>>
    /\ code_files = <<>>
    /\ selected_files = <<>>
    /\ file_contents = <<>>
    /\ read_log = <<>>
    /\ calls = <<>>
    /\ sel_outcome = "none"
    /\ llm_outcome = "none"
    /\ result = EmptyDict
    /\ escaped = "none"
    /\ current = 1
    /\ suspended = <<>>
    /\ disk = EmptyDict
    /\ clones = <<>>

\* aggregate_results(results) runs to its end; the caller's result dicts
\* are left as the loop stamped them
AggregateCall ==
    /\ pc = "aggregate_call"
    /\ fn_ret' = aggregate_results(fn_args.results)
    /\ fn_args' = [results |-> [i \in 1..Len(fn_args.results) |->
                                   StampedResult(fn_args.results[i])]]
    /\ pc' = "aggregate_done"
    /\ UNCHANGED <<caller, rule, all_files, llm_client, env_key, max_files,
                   filtered_code, code_files, selected_files, file_contents,
                   read_log, calls, sel_outcome, llm_outcome, result, escaped,
                   current, suspended, disk, clones>>

NextAggregate == AggregateCall

SpecAggregate == InitAggregate /\ [][NextAggregate]_vars

(***************************************************************************)
(* Properties of aggregate_results                                         *)
(***************************************************************************)

Aggregated == pc = "aggregate_done"

\* the positions of the results whose score counts: present, not null, a number
UsablePositions(results) ==
    {i \in 1..Len(results) :
        /\ "score" \in DOMAIN results[i]
        /\ results[i].score.t \in {"int", "float"}}

RECURSIVE TenthsOver(_, _)
TenthsOver(results, P) ==
    IF P = {} THEN 0
    ELSE LET i == CHOOSE x \in P : TRUE
         IN  (IF results[i].score.t = "int" THEN 10 * results[i].score.v
              ELSE results[i].score.v)
             + TenthsOver(results, P \ {i})

Abs(x) == IF x < 0 THEN -x ELSE x

\* n is an integer nearest to num / den
IsNearestInteger(n, num, den) == 2 * Abs(n * den - num) <= den

ScoresWithin(results, lo, hi) ==
    \A i \in UsablePositions(results) :
        /\ 10 * lo <= TenthsOver(results, {i})
        /\ TenthsOver(results, {i}) <= 10 * hi

\* C21: the aggregate score is the mean of the numeric non-null scores
\* rounded to a nearest integer, 0 when no result has a usable score;
\* results with a null or a missing score do not count; and it lies in
\* 0..100 when every usable score does
C21_ScoreIsRoundedMean ==
    [][pc = "aggregate_call" =>
        LET results == fn_args.results
            P == UsablePositions(results)
        IN  /\ P = {} => fn_ret'.score = 0
            /\ P # {} => IsNearestInteger(fn_ret'.score, TenthsOver(results, P),
                                          10 * Cardinality(P))
            /\ ScoresWithin(results, 0, 100) =>
                   (0 <= fn_ret'.score /\ fn_ret'.score <= 100)]_vars

\* scores 80, null, 60 aggregate to 70; 80, 60, 60 to 67
C21_Witness ==
    /\ Aggregated
    /\ Len(fn_args.results) = 3
    /\ \/ /\ [i \in 1..3 |-> Get(fn_args.results[i], "score", PyStr(<<>>))]
               = <<PyInt(80), PyNone, PyInt(60)>>
          /\ fn_ret.score = 70
       \/ /\ [i \in 1..3 |-> Get(fn_args.results[i], "score", PyStr(<<>>))]
               = <<PyInt(80), PyInt(60), PyInt(60)>>
          /\ fn_ret.score = 67

\* how many violations the result at position i holds
CountAt(results, i) ==
    IF "violations" \in DOMAIN results[i] THEN Len(results[i].violations.v) ELSE 0

RECURSIVE CountBefore(_, _)
CountBefore(results, i) ==
    IF i <= 1 THEN 0
    ELSE CountBefore(results, i - 1) + CountAt(results, i - 1)

\* v is the record w with its rule_id set to rid and nothing else changed
IsStampOf(v, w, rid) ==
    /\ DOMAIN v.v = DOMAIN w.v \cup {"rule_id"}
    /\ v.v.rule_id = rid
    /\ \A key \in DOMAIN w.v \ {"rule_id"} : v.v[key] = w.v[key]

\* C22: the aggregate's violations are the results' violations concatenated
\* in input order, each stamped with the rule id of its result; their number
\* is the sum of the per-result counts; rules_checked is the number of
\* results given, errored ones included
C22_ViolationsConcatenated ==
    [][pc = "aggregate_call" =>
        LET results == fn_args.results
            n == Len(results)
        IN  /\ fn_ret'.rules_checked = n
            /\ Len(fn_ret'.violations) = CountBefore(results, n + 1)
            /\ \A i \in 1..n : \A j \in 1..CountAt(results, i) :
                   IsStampOf(fn_ret'.violations[CountBefore(results, i) + j],
                             results[i].violations.v[j],
                             Get(results[i], "rule_id", PyNone))]_vars

\* violations of two results, an errored result between them
C22_Witness ==
    /\ Aggregated
    /\ Len(fn_args.results) = 3
    /\ "error" \in DOMAIN fn_args.results[2]
    /\ CountAt(fn_args.results, 1) = 2
    /\ CountAt(fn_args.results, 3) = 1
    /\ Len(fn_ret.violations) = 3
    /\ fn_ret.violations[3].v.rule_id = RuleIdOf(1)
    /\ fn_ret.rules_checked = 3

\* C23: aggregate_results is pure: every result and every violation record
\* it was given is the same after the call as before it
C23_InputsUnchanged ==
    [][pc = "aggregate_call" => fn_args' = fn_args]_vars

\* the positions of the results that carry no error
UnerroredPositions(results) ==
    {i \in 1..Len(results) : "error" \notin DOMAIN results[i]}

\* C24: for results produced by analyze_rule, the aggregate score is the
\* rounded mean of the scores of the results without an error
C24_ErroredIgnored ==
    [][(/\ pc = "aggregate_call"
        /\ \A i \in 1..Len(fn_args.results) :
               fn_args.results[i] \in AnalyzeRuleResults) =>
        LET results == fn_args.results
            P == UnerroredPositions(results)
        IN  /\ P = {} => fn_ret'.score = 0
            /\ P # {} => IsNearestInteger(fn_ret'.score, TenthsOver(results, P),
                                          10 * Cardinality(P))]_vars

(***************************************************************************)
(* get_all_files(repo_path), called on its own.  A path is the sequence of *)
(* its components (what pathlib calls parts), each a string; a repository  *)
(* on disk is the set of the paths of its regular files, relative to the   *)
(* repository root.                                                        *)
(***************************************************************************)

\* most files a repository of this model holds
MaxTreeFiles == 3

CODE_EXTENSIONS ==
    {<<".", "p", "y">>, <<".", "j", "s">>, <<".", "j", "s", "x">>,
     <<".", "t", "s", "x">>, <<".", "t", "s">>, <<".", "h", "t", "m", "l">>,
     <<".", "c", "s", "s">>, <<".", "j", "a", "v", "a">>,
     <<".", "c", "p", "p">>, <<".", "c">>, <<".", "g", "o">>,
     <<".", "r", "b">>, <<".", "p", "h", "p">>}

DOC_EXTENSIONS ==
    {<<".", "m", "d">>, <<".", "t", "x", "t">>, <<".", "p", "d", "f">>,
     <<".", "r", "s", "t">>, <<".", "a", "d", "o", "c">>}

EXCLUDED_DIRS ==
    {<<"n", "o", "d", "e", "_", "m", "o", "d", "u", "l", "e", "s">>,
     <<"d", "i", "s", "t">>, <<"b", "u", "i", "l", "d">>,
     <<".", "g", "i", "t">>,
     <<"_", "_", "p", "y", "c", "a", "c", "h", "e", "_", "_">>,
     <<"v", "e", "n", "v">>, <<"e", "n", "v">>, <<".", "v", "e", "n", "v">>,
     <<"v", "e", "n", "d", "o", "r">>, <<"t", "a", "r", "g", "e", "t">>,
     <<"b", "i", "n">>, <<"o", "b", "j">>, <<".", "n", "e", "x", "t">>,
     <<".", "n", "u", "x", "t">>,
     <<"c", "o", "v", "e", "r", "a", "g", "e">>,
     <<".", "p", "y", "t", "e", "s", "t", "_", "c", "a", "c", "h", "e">>,
     <<".", "m", "y", "p", "y", "_", "c", "a", "c", "h", "e">>}

\* the regular files a repository may hold: code and documents at the root
\* and in plain directories, an upper-case extension, files below excluded
\* directories, a directory whose name differs from an excluded one by
\* case, a file whose name starts like an excluded name, and files without
\* a listed extension
TreeFiles ==
    {<<<<"a", ".", "p", "y">>>>,
     <<<<"s", "r", "c">>, <<"B", ".", "P", "Y">>>>,
     <<<<"b", "u", "i", "l", "d">>, <<"c", ".", "j", "s">>>>,
     <<<<"s", "r", "c">>, <<"v", "e", "n", "v">>, <<"d", ".", "m", "d">>>>,
     <<<<"r", ".", "m", "d">>>>,
     <<<<"B", "u", "i", "l", "d">>, <<"e", ".", "c">>>>,
     <<<<"e", "n", "v", ".", "p", "y">>>>,
     <<<<"x", ".", "b", "i", "n">>>>,
     <<<<".", "p", "y">>>>,
     <<<<"b", "i", "n">>>>}

\* repo_path as clone_repo returns it ("cloned_repos/<name>", the name
\* being the last segment of the URL), and one absolute path
RepoPaths ==
    {<<<<"c", "l", "o", "n", "e", "d", "_", "r", "e", "p", "o", "s">>, <<"a", "p", "p">>>>,
     <<<<"c", "l", "o", "n", "e", "d", "_", "r", "e", "p", "o", "s">>, <<"b", "u", "i", "l", "d">>>>,
     <<<<"/">>, <<"s", "r", "v">>, <<"v", "e", "n", "d", "o", "r">>, <<"a", "p", "p">>>>}

Trees == {t \in SUBSET TreeFiles : Cardinality(t) <= MaxTreeFiles}

\* PurePath.suffix of a file name: from its last dot, unless the dot is the
\* first or the last character
Suffix(name) ==
    LET dots == {i \in 1..Len(name) : name[i] = "."}
    IN  IF dots = {} THEN <<>>
        ELSE LET i == CHOOSE d \in dots : \A e \in dots : e <= d
             IN  IF 1 < i /\ i < Len(name) THEN SubSeq(name, i, Len(name))
                 ELSE <<>>

\* str(path) of a relative path: its parts joined by "/"
RECURSIVE JoinParts(_)
JoinParts(parts) ==
    IF Len(parts) = 1 THEN parts[1]
    ELSE parts[1] \o <<"/">> \o JoinParts(Tail(parts))

RECURSIVE SetToSeq(_)
SetToSeq(S) ==
    IF S = {} THEN <<>>
    ELSE LET x == CHOOSE y \in S : TRUE IN <<x>> \o SetToSeq(S \ {x})

\* variant of InExcludedDir: only the parts below the repository root count
InExcludedDir_BelowRoot(repo_path, relative) ==
    \E excluded \in EXCLUDED_DIRS : InList(excluded, relative)

\* any(excluded in file_path.parts for excluded in EXCLUDED_DIRS), where
\* file_path is the repository path followed by the relative path
InExcludedDir(repo_path, relative) ==
    \E excluded \in EXCLUDED_DIRS : InList(excluded, repo_path \o relative)

\* file_path.suffix.lower()
Extension(relative) == LowerStr(Suffix(relative[Len(relative)]))

\* the dict get_all_files returns for the repository at repo_path holding
\* the files of tree
ListRepository(repo_path, tree) ==
    LET kept == {f \in tree : ~InExcludedDir(repo_path, f)}
        code == {f \in kept : Extension(f) \in CODE_EXTENSIONS}
        doc == {f \in kept : /\ Extension(f) \notin CODE_EXTENSIONS
                              /\ Extension(f) \in DOC_EXTENSIONS}
    IN  [code_files |-> sorted(SetToSeq({JoinParts(f) : f \in code})),
         doc_files |-> sorted(SetToSeq({JoinParts(f) : f \in doc}))]

InitListing ==
    /\ pc = "listing_call"
    /\ caller = "get_all_files"
    /\ fn_args \in [repo_path : RepoPaths, tree : Trees]
    /\ fn_ret = <<>>
    /\ rule = EmptyDict
    /\ all_files = get_all_files(0, 0)
    /\ llm_client = "None"
    /\ env_key = FALSE
    /\ max_files = MaxCodeFiles
    /\ filtered_code = <<>>
    /\ code_files = <<>>
    /\ selected_files = <<>>
    /\ file_contents = <<>>
    /\ read_log = <<>>
    /\ calls = <<>>
    /\ sel_outcome = "none"
    /\ llm_outcome = "none"
    /\ result = EmptyDict
    /\ escaped = "none"
    /\ current = 1
    /\ suspended = <<>>
    /\ disk = EmptyDict
    /\ clones = <<>>

\* get_all_files(repo_path) runs to its end
GetAllFilesCall ==
    /\ pc = "listing_call"
    /\ fn_ret' = ListRepository(fn_args.repo_path, fn_args.tree)
    /\ pc' = "listing_done"
    /\ UNCHANGED <<caller, rule, all_files, llm_client, env_key, max_files,
                   filtered_code, code_files, selected_files, file_contents,
                   read_log, calls, sel_outcome, llm_outcome, result, escaped,
                   fn_args, current, suspended, disk, clones>>

NextListing == GetAllFilesCall

SpecListing == InitListing /\ [][NextListing]_vars

(***************************************************************************)
(* Properties of get_all_files                                             *)
(***************************************************************************)

\* a directory on the file's path below the repository root has an
\* excluded name
BelowExcludedDir(relative) ==
    \E k \in 1..(Len(relative) - 1) : relative[k] \in EXCLUDED_DIRS

\* the relative paths of the files of tree with an extension of the given
\* allow-list and no excluded directory below the root
ExpectedListing(tree, extensions) ==
    {JoinParts(f) : f \in {g \in tree :
        /\ LowerStr(Suffix(g[Len(g)])) \in extensions
        /\ ~BelowExcludedDir(g)}}

Elements(seq) == {seq[i] : i \in 1..Len(seq)}

StrictlySorted(seq) == \A i \in 1..(Len(seq) - 1) : StrLess(seq[i], seq[i + 1])

\* C28: a file is in code_files exactly when its lower-cased extension is in
\* the code allow-list and no directory on its path below the repository
\* root has an excluded name, and in doc_files likewise for the document
\* allow-list, whatever the repository root and its parents are called; the
\* lists are disjoint, hold repository-relative paths and are sorted
C28_ListingByExtensionAndDirs ==
    pc = "listing_done" =>
        /\ Elements(fn_ret.code_files) = ExpectedListing(fn_args.tree, CODE_EXTENSIONS)
        /\ Elements(fn_ret.doc_files) = ExpectedListing(fn_args.tree, DOC_EXTENSIONS)
        /\ Elements(fn_ret.code_files) \cap Elements(fn_ret.doc_files) = {}
        /\ StrictlySorted(fn_ret.code_files)
        /\ StrictlySorted(fn_ret.doc_files)

(***************************************************************************)
(* Several analyze_rule evaluations on one event loop, sharing the         *)
(* repository (all_files) and the client object (llm_client).  The event   *)
(* loop runs one coroutine at a time and changes coroutine only where the  *)
(* running one awaits (the two completion calls) or has ended.  The        *)
(* variables of analyze_rule hold the locals of the running evaluation;    *)
(* suspended holds the locals of the others.                               *)
(***************************************************************************)

\* evaluations sharing the event loop
NumTasks == 2

\* the locals of the running evaluation
TaskFrame ==
    [pc |-> pc, rule |-> rule, max_files |-> max_files,
     filtered_code |-> filtered_code, code_files |-> code_files,
     selected_files |-> selected_files, file_contents |-> file_contents,
     read_log |-> read_log, calls |-> calls, sel_outcome |-> sel_outcome,
     llm_outcome |-> llm_outcome, result |-> result, escaped |-> escaped]

\* the locals of an evaluation that has not started
NewFrame(r) ==
    [pc |-> "entry", rule |-> r, max_files |-> MaxCodeFiles,
     filtered_code |-> <<>>, code_files |-> <<>>, selected_files |-> <<>>,
     file_contents |-> <<>>, read_log |-> <<>>, calls |-> <<>>,
     sel_outcome |-> "none", llm_outcome |-> "none", result |-> EmptyDict,
     escaped |-> "none"]

\* the rules evaluated together: code and documents with an id, documents
\* only without an id
ConcurrentRules ==
    {("id" :> RuleId) @@ ("code_checks" :> ("enabled" :> TRUE)),
     "check_type" :> "document"}

\* the shared repository: no selection call needed, or one needed
ConcurrentListings ==
    {get_all_files(nc, NumDoc) : nc \in {MaxCodeFiles, MaxCodeFiles + 1}}

InitConcurrent ==
    /\ current = 1
    /\ suspended \in [2..NumTasks -> {NewFrame(r) : r \in ConcurrentRules}]
    /\ pc = "entry"
    /\ caller = "analyze_rule"
    /\ rule \in ConcurrentRules
    /\ all_files \in ConcurrentListings
    /\ llm_client = "client"
    /\ env_key = TRUE
    /\ max_files = MaxCodeFiles
    /\ filtered_code = <<>>
    /\ code_files = <<>>
    /\ selected_files = <<>>
    /\ file_contents = <<>>
    /\ read_log = <<>>
    /\ calls = <<>>
    /\ sel_outcome = "none"
    /\ llm_outcome = "none"
    /\ result = EmptyDict
    /\ escaped = "none"
    /\ fn_args = EmptyDict
    /\ fn_ret = <<>>
    /\ disk = EmptyDict
    /\ clones = <<>>

\* the running coroutine awaits a completion call, or has ended
AtAwait == pc \in {"sbf_wait", "analysis_wait", "done", "raised"}

\* mutant of Resume: the file_contents dict is one object for all
\* evaluations, not a local of each
Resume_SharedContents(t) ==
    /\ AtAwait
    /\ t \in DOMAIN suspended
    /\ suspended[t].pc \notin {"done", "raised"}
    /\ suspended' = [u \in (DOMAIN suspended \ {t}) \cup {current} |->
                        IF u = current THEN TaskFrame ELSE suspended[u]]
    /\ current' = t
    /\ pc' = suspended[t].pc
    /\ rule' = suspended[t].rule
    /\ max_files' = suspended[t].max_files
    /\ filtered_code' = suspended[t].filtered_code
    /\ code_files' = suspended[t].code_files
    /\ selected_files' = suspended[t].selected_files
    /\ read_log' = suspended[t].read_log
    /\ calls' = suspended[t].calls
    /\ sel_outcome' = suspended[t].sel_outcome
    /\ llm_outcome' = suspended[t].llm_outcome
    /\ result' = suspended[t].result
    /\ escaped' = suspended[t].escaped
    /\ UNCHANGED <<caller, all_files, llm_client, env_key, file_contents,
                   fn_args, fn_ret, disk, clones>>

\* the event loop leaves the running coroutine at its await and runs
\* evaluation t, which has not started or whose awaited call has completed
Resume(t) ==
    /\ AtAwait
    /\ t \in DOMAIN suspended
    /\ suspended[t].pc \notin {"done", "raised"}
    /\ suspended' = [u \in (DOMAIN suspended \ {t}) \cup {current} |->
                        IF u = current THEN TaskFrame ELSE suspended[u]]
    /\ current' = t
    /\ pc' = suspended[t].pc
    /\ rule' = suspended[t].rule
    /\ max_files' = suspended[t].max_files
    /\ filtered_code' = suspended[t].filtered_code
    /\ code_files' = suspended[t].code_files
    /\ selected_files' = suspended[t].selected_files
    /\ file_contents' = suspended[t].file_contents
    /\ read_log' = suspended[t].read_log
    /\ calls' = suspended[t].calls
    /\ sel_outcome' = suspended[t].sel_outcome
    /\ llm_outcome' = suspended[t].llm_outcome
    /\ result' = suspended[t].result
    /\ escaped' = suspended[t].escaped
    /\ UNCHANGED <<caller, all_files, llm_client, env_key, fn_args, fn_ret,
                   disk, clones>>

\* the provider behaviours of the concurrent runs: a selection reply names
\* at most one file, at most one read fails per evaluation, and an analysis
\* reply is the base object with either value of passed, or is not JSON
SelectionBound == sel_outcome = "reply" => Len(code_files) <= 1
ReadBound == Cardinality({i \in 1..Len(read_log) : ~read_log[i]}) <= 1
AnalysisBound ==
    /\ llm_outcome \in {"parsed", "ValueError"}
    /\ llm_outcome = "parsed" =>
          /\ result.violations = BaseAnalysis.violations
          /\ result.score = BaseAnalysis.score
          /\ result.passed.t = "bool"

NextConcurrent ==
    \/ Enter
    \/ ResolveFiles
    \/ SbfEntry
    \/ SbfReply /\ SelectionBound'
    \/ SbfFail
    \/ Combine
    \/ ReadFileOk
    \/ ReadFileFail /\ ReadBound'
    \/ CallLLM
    \/ AnalysisReply /\ AnalysisBound'
    \/ AnalysisFail
    \/ \E t \in 1..NumTasks : Resume(t)

SpecConcurrent == InitConcurrent /\ [][NextConcurrent]_vars

(***************************************************************************)
(* Properties of concurrent evaluations                                    *)
(***************************************************************************)

Tasks == {current} \cup DOMAIN suspended

\* the locals of evaluation t
FrameOf(t) == IF t = current THEN TaskFrame ELSE suspended[t]

\* the keyword-filtered code files of rule r in the shared repository
CandidatesOf(r) ==
    LET cc == Get(r, "code_checks", EmptyDict)
    IN  IF /\ Get(r, "check_type", "both") \in {"code", "both"}
           /\ Get(cc, "enabled", FALSE)
        THEN filter_by_keywords(all_files.code_files, Get(cc, "file_keywords", <<>>))
        ELSE <<>>

DocumentsOf(r) ==
    IF Get(r, "check_type", "both") \in {"document", "both"}
    THEN all_files.doc_files ELSE <<>>

\* the frame f of a returned evaluation is what the evaluation produces
\* when it runs alone on the shared repository with the provider replies
\* and file reads that f records: its selection comes from its own rule and
\* its own selection outcome, its calls are its own, and its result is
\* built from its own rule id, its own reads and its own analysis outcome
RanAsAlone(f) ==
    LET candidates == CandidatesOf(f.rule)
        rid == Get(f.rule, "id", PyNone)
        reads == FirstOccurrences(ReadsThatSucceeded(f.selected_files, f.read_log))
    IN  /\ f.escaped = "none"
        /\ f.selected_files = f.code_files \o DocumentsOf(f.rule)
        /\ IF Len(candidates) <= MaxCodeFiles
           THEN f.code_files = candidates /\ f.sel_outcome = "none"
           ELSE CASE f.sel_outcome \in {"raised", "parse_raised"} ->
                       f.code_files = Take(candidates, MaxCodeFiles)
                  [] f.sel_outcome \in {"reply", "unparsed"} ->
                       /\ Len(f.code_files) <= MaxCodeFiles
                       /\ \A i \in 1..Len(f.code_files) :
                              InList(f.code_files[i], candidates)
                  [] OTHER -> FALSE
        /\ f.calls = (IF Len(candidates) > MaxCodeFiles THEN <<"select">> ELSE <<>>)
                     \o (IF f.selected_files # <<>> THEN <<"analysis">> ELSE <<>>)
        /\ IF f.selected_files = <<>>
           THEN f.result =
                  [rule_id |-> rid, passed |-> PyBool(TRUE),
                   violations |-> PyList(<<>>), score |-> PyInt(100),
                   files_analyzed |-> <<>>,
                   note |-> "No relevant files found to analyze"]
           ELSE /\ Len(f.read_log) = Len(f.selected_files)
                /\ f.file_contents = reads
                /\ IF f.llm_outcome = "parsed"
                   THEN \E parsed \in AnalysisParses :
                           /\ ~Raised(parsed)
                           /\ f.result =
                                [key \in DOMAIN parsed.ok \cup {"rule_id", "files_analyzed"} |->
                                    IF key = "rule_id" THEN rid
                                    ELSE IF key = "files_analyzed" THEN reads
                                    ELSE parsed.ok[key]]
                   ELSE /\ f.llm_outcome # "none"
                        /\ f.result =
                             [rule_id |-> rid, passed |-> PyNone,
                              violations |-> PyList(<<>>), score |-> PyInt(0),
                              files_analyzed |-> reads,
                              error |-> IF f.llm_outcome = "raised"
                                        THEN "Exception" ELSE f.llm_outcome]

\* C25: concurrent evaluations sharing one repository and one client are
\* independent: however they interleave, each returns the result it
\* returns when run alone with the same provider replies and file reads,
\* and a provider or parse failure in one changes no other's result
C25_EvaluationsIndependent ==
    /\ llm_client = "client"
    /\ \A t \in Tasks : FrameOf(t).pc # "raised"
    /\ \A t \in Tasks : FrameOf(t).pc = "done" => RanAsAlone(FrameOf(t))

\* C25 witness: evaluation 1 awaited its selection call while evaluation 2
\* ran to its end; the analysis call of evaluation 1 then failed, and the
\* result of evaluation 2, built from a parsed reply, is in place
C25_Witness ==
    /\ current = 1
    /\ pc = "done"
    /\ calls = <<"select", "analysis">>
    /\ llm_outcome = "raised"
    /\ \E t \in DOMAIN suspended :
          /\ suspended[t].pc = "done"
          /\ suspended[t].llm_outcome = "parsed"
          /\ suspended[t].file_contents # <<>>
          /\ suspended[t].file_contents # file_contents

(***************************************************************************)
(* repo_handler.py: clone_repo, several calls at a time (request handlers  *)
(* of different workers, or one after the other while an evaluation still  *)
(* reads an earlier clone).  disk maps the name of a directory under       *)
(* REPOS_DIR to the URL whose clone it holds.                              *)
(***************************************************************************)

\* clone_repo calls in one run
NumClones == 2

CloneUrls ==
    {<<"h", "t", "t", "p", "s", ":", "/", "/", "g", "i", "t", "h", "u",
       "b", ".", "c", "o", "m", "/", "a", "l", "i", "c", "e", "/", "a",
       "p", "p", ".", "g", "i", "t">>,
     <<"h", "t", "t", "p", "s", ":", "/", "/", "g", "i", "t", "h", "u",
       "b", ".", "c", "o", "m", "/", "b", "o", "b", "/", "a", "p", "p">>,
     <<"h", "t", "t", "p", "s", ":", "/", "/", "g", "i", "t", "h", "u",
       "b", ".", "c", "o", "m", "/", "b", "o", "b", "/", "w", "e", "b",
       "/">>}

\* s.rstrip("/")
RECURSIVE RStripSlash(_)
RStripSlash(s) ==
    IF s # <<>> /\ s[Len(s)] = "/" THEN RStripSlash(SubSeq(s, 1, Len(s) - 1))
    ELSE s

\* s.split("/")[-1]
LastSegment(s) ==
    LET slashes == {i \in 1..Len(s) : s[i] = "/"}
    IN  IF slashes = {} THEN s
        ELSE SubSeq(s, (CHOOSE i \in slashes : \A j \in slashes : j <= i) + 1, Len(s))

\* s.replace(".git", "")
RECURSIVE RemoveDotGit(_)
RemoveDotGit(s) ==
    IF Len(s) < 4 THEN s
    ELSE IF SubSeq(s, 1, 4) = <<".", "g", "i", "t">>
    THEN RemoveDotGit(SubSeq(s, 5, Len(s)))
    ELSE <<Head(s)>> \o RemoveDotGit(Tail(s))

\* repo_name = repo_url.rstrip("/").split("/")[-1].replace(".git", "")
repo_name(repo_url) == RemoveDotGit(LastSegment(RStripSlash(repo_url)))

\* shutil.rmtree(repo_path)
Rmtree(d, name) == [n \in DOMAIN d \ {name} |-> d[n]]

InitClone ==
    /\ pc = "clone_calls"
    /\ caller = "clone_repo"
    /\ clones \in [1..NumClones -> [pc : {"start"}, repo_url : CloneUrls,
                                    repo_path : {<<>>}]]
    /\ disk = EmptyDict
    /\ current = 1
    /\ suspended = <<>>
    /\ fn_args = EmptyDict
    /\ fn_ret = <<>>
    /\ rule = EmptyDict
    /\ all_files = get_all_files(0, 0)
    /\ llm_client = "None"
    /\ env_key = FALSE
    /\ max_files = MaxCodeFiles
    /\ filtered_code = <<>>
    /\ code_files = <<>>
    /\ selected_files = <<>>
    /\ file_contents = <<>>
    /\ read_log = <<>>
    /\ calls = <<>>
    /\ sel_outcome = "none"
    /\ llm_outcome = "none"
    /\ result = EmptyDict
    /\ escaped = "none"

\* call i: the directory name from the URL, and the removal of a directory
\* that already has this name
CloneBegin(i) ==
    /\ clones[i].pc = "start"
    /\ LET name == repo_name(clones[i].repo_url)
       IN  /\ clones' = [clones EXCEPT ![i].pc = "cloning", ![i].repo_path = name]
           /\ disk' = IF name \in DOMAIN disk THEN Rmtree(disk, name) ELSE disk
    /\ UNCHANGED <<pc, caller, rule, all_files, llm_client, env_key, max_files,
                   filtered_code, code_files, selected_files, file_contents,
                   read_log, calls, sel_outcome, llm_outcome, result, escaped,
                   fn_args, fn_ret, current, suspended>>

\* call i: Repo.clone_from fills the directory; git refuses a directory
\* that exists and is not empty, and the fetch itself may fail
CloneFetch(i) ==
    /\ clones[i].pc = "cloning"
    /\ \E fetched \in BOOLEAN :
          IF fetched /\ clones[i].repo_path \notin DOMAIN disk
          THEN /\ disk' = (clones[i].repo_path :> clones[i].repo_url) @@ disk
               /\ clones' = [clones EXCEPT ![i].pc = "cloned"]
          ELSE /\ clones' = [clones EXCEPT ![i].pc = "raised"]
               /\ UNCHANGED disk
    /\ UNCHANGED <<pc, caller, rule, all_files, llm_client, env_key, max_files,
                   filtered_code, code_files, selected_files, file_contents,
                   read_log, calls, sel_outcome, llm_outcome, result, escaped,
                   fn_args, fn_ret, current, suspended>>

\* call i: the size check; a repository that is too large is removed and
\* the call raises, otherwise the path is returned
CloneCheck(i) ==
    /\ clones[i].pc = "cloned"
    /\ \E too_large \in BOOLEAN :
          IF too_large /\ clones[i].repo_path \in DOMAIN disk
          THEN /\ disk' = Rmtree(disk, clones[i].repo_path)
               /\ clones' = [clones EXCEPT ![i].pc = "raised"]
          ELSE /\ clones' = [clones EXCEPT ![i].pc = "returned"]
               /\ UNCHANGED disk
    /\ UNCHANGED <<pc, caller, rule, all_files, llm_client, env_key, max_files,
                   filtered_code, code_files, selected_files, file_contents,
                   read_log, calls, sel_outcome, llm_outcome, result, escaped,
                   fn_args, fn_ret, current, suspended>>

NextClone ==
    \/ \E i \in 1..NumClones : CloneBegin(i)
    \/ \E i \in 1..NumClones : CloneFetch(i)
    \/ \E i \in 1..NumClones : CloneCheck(i)

SpecClone == InitClone /\ [][NextClone]_vars

(***************************************************************************)
(* Properties of clone_repo                                                *)
(***************************************************************************)

\* C30: calls for two different URLs never use the same local directory,
\* and no call deletes, replaces or writes into the directory that a call
\* for another URL has returned
C30_DistinctCloneDirectories ==
    [][\A i, j \in 1..NumClones :
          (i # j /\ clones[i].repo_url # clones[j].repo_url) =>
             /\ (clones'[i].pc # "start" /\ clones'[j].pc # "start") =>
                    clones'[i].repo_path # clones'[j].repo_path
             /\ (clones[i].pc = "returned" /\ clones'[j] # clones[j]) =>
                    /\ clones[i].repo_path \in DOMAIN disk'
                    /\ disk'[clones[i].repo_path] = clones[i].repo_url]_vars


====
